---- MODULE Spec2Model ----
(***************************************************************************)
(* A state-machine model of the eto instrumentation facade (otelgo):       *)
(* the process-wide handles set by Init and read by every builder, the     *)
(* shutdown callback, the cached metric instruments, and the span          *)
(* builders.  Each action is one call, or one step of a call, of the Go    *)
(* code under src/eto.                                                     *)
(***************************************************************************)
EXTENDS Integers, Sequences, FiniteSets, TLC

\* ------------------------------------------------------------------ bounds

\* How many times the host calls Init (a failed call may be retried).
MaxInit == 2
\* How many times the host invokes the shutdown callback.
MaxShutdown == 2
\* Goroutines that use the metric builders concurrently.
NumThreads == 2
\* Done() calls made on one SpanScope.
MaxDone == 3
\* Send() calls made on one LogBuilder.
MaxSend == 2
\* Field() calls made on one LogBuilder.
MaxFields == 1
\* Attr() calls made on one metric or trace builder.
MaxAttrs == 2
\* Frames above Send on the stack.
MaxStack == 2
\* Spans started through one TraceStruct, and TraceClose calls on it.
MaxSpans == 4
MaxClose == 2
\* Messages delivered to one consumer wrapper.
MaxMsgs == 2

\* ------------------------------------------------------------- vocabulary

\* The nil handle; a non-nil handle is the number of the Init call that made it.
Nil == 0

\* The three export pipelines Init constructs.
ExportKinds == {"trace", "metric", "log"}
\* What the shutdown callback closes: the three providers and the zap logger.
ShutdownKinds == {"trace", "metric", "log", "logger"}
\* The places where Init can return an error.
InitFailPoints == {"resource", "trace", "metric", "log", "zap"}
\* The configurations the host passes to Init.
Configs == [ServiceName : {"svc"}, EnableMetrics : BOOLEAN,
            SkipCallerPkgs : {<<>>}, SkipCallerFiles : {<<>>}]
\* The zero value of Config.
ZeroConfig == [ServiceName |-> "", EnableMetrics |-> FALSE,
               SkipCallerPkgs |-> <<>>, SkipCallerFiles |-> <<>>]

VARIABLES
    globals,        \* the package variables of otel_init.go, and otel's own globals
    pipes,          \* pipes[id][kind]: the exporter Init call id made for kind
    inits,          \* one record per finished Init call
    shutdownCount,  \* calls of the shutdown callback so far
    lastShutdown,   \* what the last call of the shutdown callback did
    emitted,        \* the sinks the step just taken delivered a record to
    crashed,        \* a nil dereference has panicked in the facade's own code
    mu,             \* counterMu / histogramMu: the goroutine holding it, or 0
    cache,          \* counterCache / histogramCache: name -> instrument or Nil
    created,        \* created[kind][name]: instruments the meter made for name
    instrSchema,    \* instrSchema[kind][name]: unit and description of the cached instrument
    thr,            \* each goroutine's position in Add / Record
    run,            \* the TraceBuilder.Run call in progress
    scope,          \* the SpanScope the caller holds
    lb,             \* the LogBuilder the caller holds, and what its last Send did
    prop,           \* the PropagationBuilder, the carrier at hand, the last call
    ab,             \* the metric or trace builder whose Attr is called, and its inputs
    ts,             \* the helper's TraceStruct and the spans started through it
    cons            \* the AMQP consumer wrapper: the message at hand and what it did

lifeVars == <<globals, pipes, inits, shutdownCount, lastShutdown>>
metricVars == <<mu, cache, created, instrSchema, thr>>
traceVars == <<run, scope>>
buildVars == <<ab, ts, cons>>

\* ------------------------------------------------------------------- Init

\* The package variables before any Init call.
ZeroGlobals ==
    [cfg |-> ZeroConfig, tp |-> Nil, otelTP |-> Nil, mp |-> Nil, otelMP |-> Nil,
     meter |-> Nil, lp |-> Nil, otelLP |-> Nil, otelLogger |-> Nil,
     propagator |-> Nil, otelProp |-> Nil, logger |-> Nil]

\* Init(ctx, cfg), call number id, whose first failing construction is failAt
\* ("none": every construction succeeds).  The result is the package variables
\* as Init leaves them, the exporters it constructed, and whether it returned
\* an error.
InitResult(g, cfg, failAt, id) ==
    LET g0 == [g EXCEPT !.cfg = cfg]
        g1 == [g0 EXCEPT !.tp = id, !.otelTP = id]
        g2 == IF cfg.EnableMetrics
              THEN [g1 EXCEPT !.mp = id, !.otelMP = id, !.meter = id]
              ELSE g1
        c2 == IF cfg.EnableMetrics THEN {"trace", "metric"} ELSE {"trace"}
        g3 == [g2 EXCEPT !.lp = id, !.otelLP = id, !.otelLogger = id,
                         !.propagator = id, !.otelProp = id]
        g4 == [g3 EXCEPT !.logger = id]
    IN  CASE failAt = "resource" -> [g |-> g0, created |-> {}, err |-> TRUE]
          [] failAt = "trace"    -> [g |-> g0, created |-> {}, err |-> TRUE]
          [] failAt = "metric" /\ cfg.EnableMetrics
                                 -> [g |-> g1, created |-> {"trace"}, err |-> TRUE]
          [] failAt = "log"      -> [g |-> g2, created |-> c2, err |-> TRUE]
          [] failAt = "zap"      -> [g |-> g3, created |-> c2 \cup {"log"}, err |-> TRUE]
          [] OTHER               -> [g |-> g4, created |-> c2 \cup {"log"}, err |-> FALSE]

\* The lifecycle state one Init call leaves: the package variables, the
\* exporters it opened, and the record of the call.
ApplyInit(s, cfg, failAt) ==
    LET id == Len(s.inits) + 1
        r  == InitResult(s.globals, cfg, failAt, id)
    IN  [globals |-> r.g,
         pipes   |-> [s.pipes EXCEPT ![id] =
                         [k \in ExportKinds |->
                             IF k \in r.created THEN "open" ELSE "none"]],
         inits   |-> Append(s.inits,
                         [result |-> IF r.err THEN "error" ELSE "ok",
                          pre |-> s.globals, cfg |-> cfg, failAt |-> failAt])]

\* Some Init call has returned the shutdown callback.
InitSucceeded == \E i \in 1..Len(inits) : inits[i].result = "ok"

\* The host calls Init: once at startup, again only after a failed call.
InitCall(cfg, failAt) ==
    /\ ~crashed
    /\ Len(inits) < MaxInit
    /\ ~InitSucceeded
    /\ failAt = "metric" => cfg.EnableMetrics
    /\ LET s == ApplyInit([globals |-> globals, pipes |-> pipes, inits |-> inits],
                          cfg, failAt)
       IN  /\ globals' = s.globals
           /\ pipes' = s.pipes
           /\ inits' = s.inits
    /\ emitted' = {}
    /\ UNCHANGED <<buildVars, lb, prop, shutdownCount, lastShutdown, crashed, metricVars, traceVars>>

\* --------------------------------------------------------------- shutdown

\* The handle the shutdown callback tests for each thing it closes.
ShutdownHandle(g, k) ==
    CASE k = "trace"  -> g.tp
      [] k = "metric" -> g.mp
      [] k = "log"    -> g.lp
      [] k = "logger" -> g.logger

\* The shutdowns a fail-fast callback would attempt: it stops at the first
\* one that fails.
ShutdownAttemptsFailFast(g, failing) ==
    LET order == <<"trace", "metric", "log", "logger">>
        present(i) == ShutdownHandle(g, order[i]) # Nil
    IN  {order[i] : i \in {j \in 1..4 :
            /\ present(j)
            /\ \A h \in 1..(j - 1) : ~(present(h) /\ order[h] \in failing)}}

\* The shutdowns the callback attempts when those in `failing` return an
\* error: every error is discarded (_ = ...) and the next one runs.
ShutdownAttempts(g, failing) ==
    {k \in ShutdownKinds : ShutdownHandle(g, k) # Nil}

\* The host invokes the shutdown callback Init returned.
ShutdownCall(failing) ==
    /\ ~crashed
    /\ InitSucceeded
    /\ shutdownCount < MaxShutdown
    /\ LET att == ShutdownAttempts(globals, failing)
       IN  /\ lastShutdown' = [attempted |-> att, failed |-> att \cap failing,
                               ret |-> "nil"]
           /\ pipes' = [id \in DOMAIN pipes |-> [k \in ExportKinds |->
                           IF k \in att /\ ShutdownHandle(globals, k) = id
                                /\ pipes[id][k] = "open"
                           THEN "closed" ELSE pipes[id][k]]]
    /\ shutdownCount' = shutdownCount + 1
    /\ emitted' = {}
    /\ UNCHANGED <<buildVars, lb, prop, globals, inits, crashed, metricVars, traceVars>>

\* The lifecycle phase a builder operation runs in.
Phase ==
    IF shutdownCount > 0 THEN "post"
    ELSE IF InitSucceeded THEN "live"
    ELSE IF Len(inits) > 0 THEN "failed"
    ELSE "pre"


\* ---------------------------------------------------------------- metrics

InstrKinds == {"counter", "histogram"}
InstrNames == {"n1", "n2"}
\* The names the caches can hold: those, and the two of the AMQP consumer.
CachedNames == InstrNames \cup {"amqp_consume_total", "amqp_consume_duration_ms"}
Threads == 1..NumThreads

\* The guard that opens Add and Record: metrics enabled and a meter installed.
MetricsOnNoNilCheck(g) == g.cfg.EnableMetrics
MetricsOn(g) == g.cfg.EnableMetrics /\ g.meter # Nil

\* sync.Mutex.Lock returns only when no goroutine holds the mutex.
LockFreeNoExclusion(k) == TRUE
LockFree(k) == mu[k] = 0

\* The nil instrument (a cache miss, a failed creation).
NoInstr == [gen |-> 0, meter |-> Nil]

\* Unit and description of a builder.  MetricCounter starts with unit "1",
\* MetricHistogram with "ms", both without description; Unit("") leaves the
\* unit as it is.
DefaultUnit(kind) == IF kind = "counter" THEN "1" ELSE "ms"
BuilderSchema(kind, unit, desc) ==
    [unit |-> IF unit # "" THEN unit ELSE DefaultUnit(kind), desc |-> desc]
\* No instrument, so no unit and description.
NoSchema == [unit |-> "", desc |-> ""]

\* A goroutine outside Add / Record; last is how its previous call ended.
IdleThread == [pc |-> "idle", kind |-> "counter", name |-> "n1", c |-> NoInstr,
               last |-> "none", schema |-> BuilderSchema("counter", "", "")]

\* Goroutine t calls MetricCounter(name).Unit(unit).Description(desc).Add or
\* MetricHistogram(name).Unit(unit).Description(desc).Record.  With metrics
\* off the call returns at once.
MetricCallWith(t, kind, name, unit, desc) ==
    /\ ~crashed
    /\ thr[t].pc = "idle"
    /\ thr' = [thr EXCEPT ![t] =
                 IF MetricsOn(globals)
                 THEN [IdleThread EXCEPT !.pc = "lock", !.kind = kind, !.name = name,
                                         !.schema = BuilderSchema(kind, unit, desc)]
                 ELSE [IdleThread EXCEPT !.last = "noop"]]
    /\ emitted' = {}
    /\ UNCHANGED <<buildVars, lb, prop, lifeVars, crashed, mu, cache, created, instrSchema, traceVars>>

\* Goroutine t calls MetricCounter(name).Add or MetricHistogram(name).Record.
MetricCall(t, kind, name) == MetricCallWith(t, kind, name, "", "")

\* getOrCreateCounter / getOrCreateHistogram: mu.Lock().
AcquireLock(t) ==
    /\ ~crashed
    /\ thr[t].pc = "lock"
    /\ LockFree(thr[t].kind)
    /\ mu' = [mu EXCEPT ![thr[t].kind] = t]
    /\ thr' = [thr EXCEPT ![t].pc = "lookup"]
    /\ emitted' = {}
    /\ UNCHANGED <<buildVars, lb, prop, lifeVars, crashed, cache, created, instrSchema, traceVars>>

\* c, ok := cache[name]: the lookup is by name alone.
CacheHitSameSchema(k, n, schema) == cache[k][n] # NoInstr /\ instrSchema[k][n] = schema
CacheHit(k, n, schema) == cache[k][n] # NoInstr

\* if c, ok := cache[name]; ok { return c }
Lookup(t) ==
    /\ ~crashed
    /\ thr[t].pc = "lookup"
    /\ LET hit == cache[thr[t].kind][thr[t].name]
       IN  thr' = [thr EXCEPT ![t] =
                     IF CacheHit(thr[t].kind, thr[t].name, thr[t].schema) THEN [@ EXCEPT !.pc = "unlock", !.c = hit]
                     ELSE [@ EXCEPT !.pc = "create"]]
    /\ emitted' = {}
    /\ UNCHANGED <<buildVars, lb, prop, lifeVars, crashed, mu, cache, created, instrSchema, traceVars>>

\* Where getOrCreate goes after the meter's answer: the deferred Unlock runs
\* on the error return as on the normal one.
AfterCreateNoDefer(ok) == IF ok THEN "unlock" ELSE "record"
AfterCreate(ok) == "unlock"

\* c, err := globalMeter.Int64Counter(...) (or Float64Histogram): on an error
\* return nil, otherwise cache[name] = c.  The new instrument is the gen-th
\* the meter made for this name; it belongs to the meter installed now.  A
\* nil meter panics.
CreateInstrument(t, ok) ==
    /\ ~crashed
    /\ thr[t].pc = "create"
    /\ LET k == thr[t].kind
           n == thr[t].name
           c == [gen |-> created[k][n] + 1, meter |-> globals.meter]
       IN  IF globals.meter = Nil
           THEN /\ crashed' = TRUE
                /\ UNCHANGED <<created, cache, instrSchema, thr>>
           ELSE /\ crashed' = crashed
                /\ IF ok
                   THEN /\ created' = [created EXCEPT ![k][n] = @ + 1]
                        /\ cache' = [cache EXCEPT ![k][n] = c]
                        /\ instrSchema' = [instrSchema EXCEPT ![k][n] = thr[t].schema]
                        /\ thr' = [thr EXCEPT ![t].pc = AfterCreate(ok), ![t].c = c]
                   ELSE /\ thr' = [thr EXCEPT ![t].pc = AfterCreate(ok),
                                              ![t].c = NoInstr]
                        /\ UNCHANGED <<created, cache, instrSchema>>
    /\ emitted' = {}
    /\ UNCHANGED <<buildVars, lb, prop, lifeVars, mu, traceVars>>

\* defer mu.Unlock()
ReleaseLock(t) ==
    /\ ~crashed
    /\ thr[t].pc = "unlock"
    /\ mu' = [mu EXCEPT ![thr[t].kind] = 0]
    /\ thr' = [thr EXCEPT ![t].pc = "record"]
    /\ emitted' = {}
    /\ UNCHANGED <<buildVars, lb, prop, lifeVars, crashed, cache, created, instrSchema, traceVars>>

\* Back in Add / Record: a nil instrument returns, otherwise the value is
\* recorded on the instrument; it reaches the metric pipeline while the
\* exporter of the instrument's meter is open.
RecordValue(t) ==
    /\ ~crashed
    /\ thr[t].pc = "record"
    /\ LET c == thr[t].c
       IN  IF c = NoInstr
           THEN /\ emitted' = {}
                /\ thr' = [thr EXCEPT ![t] = [IdleThread EXCEPT !.last = "nilInstrument"]]
           ELSE /\ emitted' = IF pipes[c.meter]["metric"] = "open"
                              THEN {"metric"} ELSE {}
                /\ thr' = [thr EXCEPT ![t] = [IdleThread EXCEPT !.last = "recorded"]]
    /\ UNCHANGED <<buildVars, lb, prop, lifeVars, crashed, mu, cache, created, instrSchema, traceVars>>

MetricStep(t) ==
    \/ \E k \in InstrKinds, n \in InstrNames : MetricCall(t, k, n)
    \/ AcquireLock(t)
    \/ Lookup(t)
    \/ \E ok \in BOOLEAN : CreateInstrument(t, ok)
    \/ ReleaseLock(t)
    \/ RecordValue(t)

\* The Init calls the host made before the goroutines run.
RECURSIVE RunInits(_)
RunInits(h) ==
    IF h = <<>>
    THEN [globals |-> ZeroGlobals,
          pipes |-> [id \in 1..MaxInit |-> [k \in ExportKinds |-> "none"]],
          inits |-> <<>>]
    ELSE ApplyInit(RunInits(SubSeq(h, 1, Len(h) - 1)), h[Len(h)].cfg, h[Len(h)].failAt)

CfgOn == [ServiceName |-> "svc", EnableMetrics |-> TRUE,
          SkipCallerPkgs |-> <<>>, SkipCallerFiles |-> <<>>]
CfgOff == [ServiceName |-> "svc", EnableMetrics |-> FALSE,
           SkipCallerPkgs |-> <<>>, SkipCallerFiles |-> <<>>]

\* Startup histories: no Init, a successful Init with and without metrics, an
\* Init that failed before and after the meter was set, and a failed Init
\* with metrics retried without them.
StartHistories ==
    { <<>>,
      <<[cfg |-> CfgOn, failAt |-> "none"]>>,
      <<[cfg |-> CfgOff, failAt |-> "none"]>>,
      <<[cfg |-> CfgOn, failAt |-> "trace"]>>,
      <<[cfg |-> CfgOn, failAt |-> "log"]>>,
      <<[cfg |-> CfgOn, failAt |-> "log"], [cfg |-> CfgOff, failAt |-> "none"]>> }

\* ------------------------------------------------------------------ spans

\* The failures fn can return, and the text err.Error() gives for each.
Errs == {"errTimeout", "errRefused"}
ErrText(e) == IF e = "errTimeout" THEN "deadline exceeded" ELSE "connection refused"

\* Attribute keys a builder can carry.
AttrKeys == {"k1"}

\* A span handle.  kind "nil" is the nil interface; "inert" is the
\* non-recording span of a tracer with no provider behind it (or one that was
\* shut down); "sdk" is a recording span.  exported counts the deliveries of
\* the finished span to the trace pipeline.
NilSpan ==
    [kind |-> "nil", ended |-> FALSE, status |-> "Unset", msg |-> "",
     exceptions |-> {}, attrs |-> {}, exported |-> 0]
InertSpan == [NilSpan EXCEPT !.kind = "inert"]

\* A span still takes updates: a recording span that has not ended.
Live(s) == s.kind = "sdk" /\ ~s.ended

\* span.SetAttributes(attrs...)
SpanSetAttributes(s, attrs) ==
    IF Live(s) THEN [s EXCEPT !.attrs = @ \cup attrs] ELSE s

\* span.RecordError(err)
SpanRecordError(s, e) ==
    IF Live(s) THEN [s EXCEPT !.exceptions = @ \cup {e}] ELSE s

\* span.SetStatus(code, msg): an Ok status is final.
SpanSetStatus(s, code, msg) ==
    IF Live(s) /\ s.status # "Ok" THEN [s EXCEPT !.status = code, !.msg = msg] ELSE s

\* span.End(): the first call on a recording span finishes it; exported is
\* set by the caller of SpanEnd when the pipeline takes the span.
SpanEnd(s) ==
    IF Live(s) THEN [s EXCEPT !.ended = TRUE] ELSE s

\* The trace pipeline takes a span when End finishes it and the exporter of
\* the provider is open.
TakesSpan(s) == Live(s) /\ globals.otelTP # Nil /\ pipes[globals.otelTP]["trace"] = "open"

\* A method call on this handle panics.
CallPanics(s) == s.kind = "nil"

\* The kind of span tr.Start returns.  otel.Tracer never returns nil: with no
\* provider installed its tracer hands out inert spans.
StartedKindFromGlobalTP(g) ==
    IF g.tp = Nil THEN "nil"
    ELSE IF pipes[g.tp]["trace"] = "open" THEN "sdk" ELSE "inert"
StartedKind(g) ==
    IF g.otelTP # Nil /\ pipes[g.otelTP]["trace"] = "open" THEN "sdk" ELSE "inert"

\* The contexts a caller hands to FromContext.
GivenCtxs == {"nil", "ctx"}

\* Trace().FromContext(given): the builder starts from context.Background()
\* and a nil argument leaves that in place.
BuilderCtx(given) == IF given # "nil" THEN given ELSE "background"

\* TraceBuilder.Start: the span, the context returned with it (b.ctx extended
\* with the span) and whether the call panicked.
TraceStart(g, given, attrs) ==
    LET s0  == [NilSpan EXCEPT !.kind = StartedKind(g)]
        ctx == IF BuilderCtx(given) = "nil" THEN "nil" ELSE "derived"
    IN  IF attrs = {} THEN [span |-> s0, ctx |-> ctx, panics |-> FALSE]
        ELSE [span |-> SpanSetAttributes(s0, attrs), ctx |-> ctx,
              panics |-> CallPanics(s0)]

\* What span.End() does to the handle, and what it delivers.
EndEffect(s) ==
    IF TakesSpan(s)
    THEN [span |-> [SpanEnd(s) EXCEPT !.exported = @ + 1], out |-> {"span"}]
    ELSE [span |-> SpanEnd(s), out |-> {}]

\* ---------------------------------------------------- TraceBuilder.Run

IdleRun ==
    [pc |-> "idle", recordErr |-> TRUE, setStatus |-> TRUE, err |-> "nil",
     panicking |-> FALSE, ret |-> "none", started |-> 0, endCalled |-> FALSE,
     ctx |-> "nil", span |-> NilSpan]

\* Run(fn): a nil fn returns an error before any span exists; otherwise
\* ctx, span := b.Start() and fn is entered.
RunBegin(fnNil, recordErr, setStatus, given, attrs) ==
    /\ ~crashed
    /\ run.pc = "idle"
    /\ LET st == TraceStart(globals, given, attrs)
       IN  IF fnNil
           THEN /\ run' = [IdleRun EXCEPT !.pc = "exited", !.ret = "errNilFn",
                                          !.recordErr = recordErr,
                                          !.setStatus = setStatus]
                /\ crashed' = crashed
           ELSE /\ run' = [IdleRun EXCEPT !.pc = "inFn", !.recordErr = recordErr,
                                          !.setStatus = setStatus, !.started = 1,
                                          !.ctx = st.ctx, !.span = st.span]
                /\ crashed' = st.panics
    /\ emitted' = {}
    /\ UNCHANGED <<buildVars, lb, prop, lifeVars, metricVars, scope>>

\* err := fn(ctx): fn returns nil, returns a failure, or panics.
RunFn(outcome) ==
    /\ ~crashed
    /\ run.pc = "inFn"
    /\ run' = IF outcome = "panic"
              THEN [run EXCEPT !.pc = "deferred", !.panicking = TRUE]
              ELSE [run EXCEPT !.pc = "afterFn", !.err = outcome]
    /\ emitted' = {}
    /\ UNCHANGED <<buildVars, lb, prop, lifeVars, crashed, metricVars, scope>>

\* if err != nil { if b.recordErr { span.RecordError(err) }
\*                 if b.setStatus { span.SetStatus(codes.Error, err.Error()) } }
RunOnErrorNoRecord(s, e, recordErr, setStatus) ==
    IF setStatus THEN SpanSetStatus(s, "Error", ErrText(e)) ELSE s
RunOnError(s, e, recordErr, setStatus) ==
    LET s1 == IF recordErr THEN SpanRecordError(s, e) ELSE s
    IN  IF setStatus THEN SpanSetStatus(s1, "Error", ErrText(e)) ELSE s1

RunHandleResult ==
    /\ ~crashed
    /\ run.pc = "afterFn"
    /\ IF run.err = "nil"
       THEN /\ run' = [run EXCEPT !.pc = "deferred"]
            /\ crashed' = crashed
       ELSE /\ run' = [run EXCEPT !.pc = "deferred",
                           !.span = RunOnError(run.span, run.err, run.recordErr,
                                               run.setStatus)]
            /\ crashed' = (CallPanics(run.span) /\ (run.recordErr \/ run.setStatus))
    /\ emitted' = {}
    /\ UNCHANGED <<buildVars, lb, prop, lifeVars, metricVars, scope>>

\* defer span.End() runs on every way out of Run, a panic of fn included.
RunExitEndsSpanNoDefer(panicking) == ~panicking
RunExitEndsSpan(panicking) == TRUE

\* Run leaves: the deferred End, then the return of err (or the panic goes on).
RunExit ==
    /\ ~crashed
    /\ run.pc = "deferred"
    /\ LET ends == RunExitEndsSpan(run.panicking)
           e    == EndEffect(run.span)
       IN  /\ run' = [run EXCEPT !.pc = "exited",
                          !.ret = IF run.panicking THEN "panic" ELSE run.err,
                          !.endCalled = ends,
                          !.span = IF ends THEN e.span ELSE @]
           /\ emitted' = IF ends THEN e.out ELSE {}
           /\ crashed' = (ends /\ CallPanics(run.span))
    /\ UNCHANGED <<buildVars, lb, prop, lifeVars, metricVars, scope>>

\* The caller has the result; the span goes out of use.
RunReturn ==
    /\ ~crashed
    /\ run.pc = "exited"
    /\ run' = IdleRun
    /\ emitted' = {}
    /\ UNCHANGED <<buildVars, lb, prop, lifeVars, crashed, metricVars, scope>>

\* ------------------------------------------------------------ SpanScope

\* done counts the Done() calls; first is the span as the first of them left it.
NoScope ==
    [kind |-> "none", ctx |-> "nil", span |-> NilSpan, attrSet |-> FALSE,
     done |-> 0, first |-> NilSpan]

\* The caller gets a scope: a nil *SpanScope, a SpanScope with no span, or
\* the one StartScope returns.
ScopeNew(k, given, attrs) ==
    /\ ~crashed
    /\ scope.kind = "none"
    /\ LET st == TraceStart(globals, given, attrs)
       IN  IF k = "span"
           THEN /\ scope' = [NoScope EXCEPT !.kind = "span", !.ctx = st.ctx,
                                            !.span = st.span]
                /\ crashed' = st.panics
           ELSE /\ scope' = [NoScope EXCEPT !.kind = k]
                /\ crashed' = crashed
    /\ emitted' = {}
    /\ UNCHANGED <<buildVars, lb, prop, lifeVars, metricVars, run>>

\* scope.Span().SetAttributes(...) after the span was created.
ScopeSetAttributes(attrs) ==
    /\ ~crashed
    /\ scope.kind = "span"
    /\ ~scope.attrSet
    /\ scope' = [scope EXCEPT !.span = SpanSetAttributes(@, attrs), !.attrSet = TRUE]
    /\ crashed' = CallPanics(scope.span)
    /\ emitted' = {}
    /\ UNCHANGED <<buildVars, lb, prop, lifeVars, metricVars, run>>

\* if s != nil && s.span != nil { s.span.End() }
DoneEndsSpanNoGuard(sc) == TRUE
DoneEndsSpan(sc) == sc.kind # "nil" /\ sc.span.kind # "nil"

\* SpanScope.Done()
ScopeDone ==
    /\ ~crashed
    /\ scope.kind # "none"
    /\ scope.done < MaxDone
    /\ LET ends == DoneEndsSpan(scope)
           e    == EndEffect(scope.span)
           s1   == IF ends THEN e.span ELSE scope.span
       IN  /\ scope' = [scope EXCEPT !.span = s1, !.done = @ + 1,
                              !.first = IF scope.done = 0 THEN s1 ELSE @]
           /\ emitted' = IF ends THEN e.out ELSE {}
           /\ crashed' = (ends /\ CallPanics(scope.span))
    /\ UNCHANGED <<buildVars, lb, prop, lifeVars, metricVars, run>>

\* The scope goes out of use.
ScopeDrop ==
    /\ ~crashed
    /\ scope.kind # "none"
    /\ scope' = NoScope
    /\ emitted' = {}
    /\ UNCHANGED <<buildVars, lb, prop, lifeVars, crashed, metricVars, run>>

RunStep ==
    \/ \E fnNil \in BOOLEAN, re \in BOOLEAN, ss \in BOOLEAN, given \in GivenCtxs,
          attrs \in SUBSET AttrKeys : RunBegin(fnNil, re, ss, given, attrs)
    \/ \E o \in Errs \cup {"nil", "panic"} : RunFn(o)
    \/ RunHandleResult
    \/ RunExit
    \/ RunReturn

ScopeStep ==
    \/ \E k \in {"nil", "empty", "span"}, given \in GivenCtxs,
          attrs \in SUBSET AttrKeys : ScopeNew(k, given, attrs)
    \/ \E attrs \in SUBSET AttrKeys : ScopeSetAttributes(attrs)
    \/ ScopeDone
    \/ ScopeDrop

\* --------------------------------------------------------------- contexts

\* A span context: trace id and span id (0 is the all-zero id) and whether
\* it came from another process.
NoSC == [trace |-> 0, span |-> 0, remote |-> FALSE]

\* sc.IsValid(): both ids are non-zero.
IsValid(sc) == sc.trace # 0 /\ sc.span # 0

\* A context.Context: nil, or a context with the span context of its active
\* span (NoSC when it has none) and its baggage (0 when it has none).
NilCtx == [nil |-> TRUE, sc |-> NoSC, bag |-> 0]
Background == [nil |-> FALSE, sc |-> NoSC, bag |-> 0]
CtxWith(sc, bag) == [nil |-> FALSE, sc |-> sc, bag |-> bag]

\* trace.SpanFromContext(ctx).SpanContext()
SpanContextOfBackground(ctx) == NoSC
SpanContextOf(ctx) == ctx.sc

\* TraceID.String() / SpanID.String(): the id in lower-case hex, as its digits.
IDString(id) == <<id \div 16, id % 16>>

\* ---------------------------------------------------------------- values

\* A Go value handed to Attr as `any`: its dynamic type and a payload.  The
\* payload n stands for the string GoString(n), the number n, or the bool
\* n # 0; "error" stands for every type the switches do not name.
IntTypes == {"int", "int8", "int16", "int32", "int64",
             "uint", "uint8", "uint16", "uint32", "uint64"}
FloatTypes == {"float32", "float64"}
GoTypes == IntTypes \cup FloatTypes \cup {"string", "bool", "error"}
Payloads == {0, 7}
GoValues == [type : GoTypes, n : Payloads]

\* Text is a sequence of character codes.
GoString(n) == <<65 + n>>
RECURSIVE Decimal(_)
Decimal(n) == IF n < 10 THEN <<48 + n>> ELSE Decimal(n \div 10) \o <<48 + (n % 10)>>

\* fmt.Sprintf("%v", v)
Sprint(val) ==
    CASE val.type = "string" -> GoString(val.n)
      [] val.type = "bool" -> IF val.n # 0 THEN <<116>> ELSE <<102>>
      [] val.type = "error" -> <<101>> \o GoString(val.n)
      [] OTHER -> Decimal(val.n)

\* ------------------------------------------------------------ LogBuilder

\* Span contexts a caller's context can hold when it logs: none, two valid
\* ones and one with a zero span id.
LogSCs ==
    { NoSC,
      [trace |-> 1, span |-> 2, remote |-> FALSE],
      [trace |-> 3, span |-> 4, remote |-> TRUE],
      [trace |-> 1, span |-> 0, remote |-> FALSE] }

\* A stack frame: Function and File as characters (47 is "/"), and Line.
Frame(fn, file, line) == [fn |-> fn, file |-> file, line |-> line]
AppFrame == Frame(<<1, 47, 9>>, <<47, 1, 47, 21>>, 7)
NestedFrame == Frame(<<1, 47, 2, 47, 8>>, <<47, 1, 47, 22>>, 8)
UtilsFrame == Frame(<<2, 47, 8>>, <<47, 2, 47, 23>>, 12)
WrapFrame == Frame(<<3, 47, 9>>, <<47, 3, 47, 25>>, 30)
UnknownFrame == Frame(<<>>, <<>>, 0)
Frames == {AppFrame, NestedFrame, UtilsFrame, WrapFrame, UnknownFrame}

\* The frames of runtime.Callers, logCaller and Send, on top of every stack
\* logCaller sees.
OwnFrames ==
    << Frame(<<4, 47, 5>>, <<47, 4, 47, 26>>, 1),
       Frame(<<6, 47, 10>>, <<47, 6, 47, 27>>, 117),
       Frame(<<6, 47, 11>>, <<47, 6, 47, 27>>, 185) >>

\* strings.HasPrefix, strings.Contains
HasPrefix(str, p) == Len(p) <= Len(str) /\ SubSeq(str, 1, Len(p)) = p
Contains(str, sub) ==
    \E i \in 0..(Len(str) - Len(sub)) : SubSeq(str, i + 1, i + Len(sub)) = sub

\* strings.LastIndex(str, "/"), counted from 1; 0 when there is none.
LastSlash(str) ==
    LET at == {i \in 1..Len(str) : str[i] = 47}
    IN  IF at = {} THEN 0 ELSE CHOOSE i \in at : \A j \in at : j <= i

\* filepath.Base on a path without trailing slash
Base(file) ==
    IF file = <<>> THEN <<46>> ELSE SubSeq(file, LastSlash(file) + 1, Len(file))

\* shortFuncName
shortFuncName(fn) ==
    IF fn = <<>> THEN <<>>
    ELSE IF LastSlash(fn) >= 1 /\ LastSlash(fn) < Len(fn)
         THEN SubSeq(fn, LastSlash(fn) + 1, Len(fn))
         ELSE fn

\* fmt.Sprintf("%s:%d %s", file, frame.Line, funcName)
CallerText(frame) ==
    Base(frame.file) \o <<58>> \o Decimal(frame.line) \o <<32>> \o shortFuncName(frame.fn)

\* useFrame: a frame without file and function is not used; nor is one whose
\* function starts with a non-empty entry of SkipCallerPkgs, or whose file
\* contains a non-empty entry of SkipCallerFiles.
useFramePkgsOnly(g, frame) ==
    /\ ~(frame.file = <<>> /\ frame.fn = <<>>)
    /\ \A i \in 1..Len(g.cfg.SkipCallerPkgs) :
         ~(g.cfg.SkipCallerPkgs[i] # <<>> /\ HasPrefix(frame.fn, g.cfg.SkipCallerPkgs[i]))
useFrame(g, frame) ==
    /\ ~(frame.file = <<>> /\ frame.fn = <<>>)
    /\ \A i \in 1..Len(g.cfg.SkipCallerPkgs) :
         ~(g.cfg.SkipCallerPkgs[i] # <<>> /\ HasPrefix(frame.fn, g.cfg.SkipCallerPkgs[i]))
    /\ \A i \in 1..Len(g.cfg.SkipCallerFiles) :
         ~(g.cfg.SkipCallerFiles[i] # <<>> /\ Contains(frame.file, g.cfg.SkipCallerFiles[i]))

\* logCaller: runtime.Callers(skipFrames, pcs) leaves out the first
\* skipFrames frames of the stack and fills at most maxDepth; the first frame
\* useFrame accepts is formatted, and "" is returned when there is none.
maxDepth == 32
skipFrames == 3
logCaller(g, stack) ==
    LET seen == SubSeq(stack, skipFrames + 1,
                       IF Len(stack) < skipFrames + maxDepth
                       THEN Len(stack) ELSE skipFrames + maxDepth)
        used == {i \in 1..Len(seen) : useFrame(g, seen[i])}
    IN  IF used = {} THEN <<>>
        ELSE CallerText(seen[CHOOSE i \in used : \A j \in used : i <= j])

\* The stack as Send runs, given the frames above Send.
StackAbove(above) == OwnFrames \o above

\* n frames of the utils package, one calling the next.
RECURSIVE Wrapped(_)
Wrapped(n) == IF n = 0 THEN <<>> ELSE <<UtilsFrame>> \o Wrapped(n - 1)

\* Stacks for a Send whose caller does not matter: an application function,
\* and a frame of unknown location.
PlainStacks == {StackAbove(<<AppFrame>>), StackAbove(<<UnknownFrame>>)}

\* A zap field or a remote attribute: key, type, and the value as Integer n
\* or as String val (its characters).
Typed(key, type, n, val) == [key |-> key, type |-> type, n |-> n, val |-> val]

\* zap.String / otellog.String
FieldOf(key, val) == Typed(key, "String", 0, val)

\* zap.Any(key, v): a field of the type zap has for v's dynamic type; a
\* floating-point value is kept as its bits in Integer, an error as Interface,
\* and both leave String empty.
ZapAny(key, val) ==
    CASE val.type = "string" -> FieldOf(key, GoString(val.n))
      [] val.type = "bool" -> Typed(key, "Bool", IF val.n # 0 THEN 1 ELSE 0, <<>>)
      [] val.type \in {"int", "int64", "uint", "uint64"} -> Typed(key, "Int64", val.n, <<>>)
      [] val.type \in {"int32", "uint32"} -> Typed(key, "Int32", val.n, <<>>)
      [] val.type \in {"int16", "uint16"} -> Typed(key, "Int16", val.n, <<>>)
      [] val.type \in {"int8", "uint8"} -> Typed(key, "Int8", val.n, <<>>)
      [] val.type = "float64" -> Typed(key, "Float64", val.n, <<>>)
      [] val.type = "float32" -> Typed(key, "Float32", val.n, <<>>)
      [] val.type = "time" -> Typed(key, "Time", val.n, <<>>)
      [] OTHER -> Typed(key, "Error", 0, <<>>)

\* The type switch of Field: zap.String, zap.Int, zap.Int64, zap.Float64,
\* zap.Bool for the named types, zap.Any for the rest.
ZapFieldOf(key, val) ==
    CASE val.type = "string" -> FieldOf(key, GoString(val.n))
      [] val.type = "int" -> Typed(key, "Int64", val.n, <<>>)
      [] val.type = "int64" -> Typed(key, "Int64", val.n, <<>>)
      [] val.type = "float64" -> Typed(key, "Float64", val.n, <<>>)
      [] val.type = "bool" -> Typed(key, "Bool", IF val.n # 0 THEN 1 ELSE 0, <<>>)
      [] OTHER -> ZapAny(key, val)

\* The values Field is called with.
LogValues == {[type |-> t, n |-> 7] : t \in GoTypes \cup {"time"}}

\* otelSeverity() / severityText()
LogLevels == {"debug", "info", "warn", "error"}
otelSeverity(level) ==
    CASE level = "debug" -> "SeverityDebug"
      [] level = "info" -> "SeverityInfo"
      [] level = "warn" -> "SeverityWarn"
      [] level = "error" -> "SeverityError"
      [] OTHER -> "SeverityInfo"

\* Log(): context.Background(), level info, no message, no fields.  given is
\* the values Field was called with, in order; sends counts the Send calls; entry, at and out are the field list and context
\* the last Send found, stack the call stack it ran on, and out the records
\* it handed to the sinks.
NewLog ==
    [ctx |-> Background, level |-> "info", fields |-> <<>>, given |-> <<>>,
     sends |-> 0, entry |-> <<>>, at |-> Background, stack |-> <<>>, out |-> <<>>]

\* Log()
LogNew ==
    /\ ~crashed
    /\ lb' = NewLog
    /\ emitted' = {}
    /\ UNCHANGED <<buildVars, lifeVars, crashed, metricVars, traceVars, prop>>

\* b.FromContext(ctx): a nil ctx is ignored.
LogFromContext(c) ==
    /\ ~crashed
    /\ lb' = IF ~c.nil THEN [lb EXCEPT !.ctx = c] ELSE lb
    /\ emitted' = {}
    /\ UNCHANGED <<buildVars, lifeVars, crashed, metricVars, traceVars, prop>>

\* b.Debug() / b.Info() / b.Warn() / b.Error()
LogLevel(level) ==
    /\ ~crashed
    /\ lb.sends = 0
    /\ lb' = [lb EXCEPT !.level = level]
    /\ emitted' = {}
    /\ UNCHANGED <<buildVars, lifeVars, crashed, metricVars, traceVars, prop>>

\* b.Field(key, val)
LogField(key, val) ==
    /\ ~crashed
    /\ lb.sends = 0
    /\ Len(lb.given) < MaxFields
    /\ lb' = [lb EXCEPT !.fields = Append(@, ZapFieldOf(key, val)),
                        !.given = Append(@, val)]
    /\ emitted' = {}
    /\ UNCHANGED <<buildVars, lifeVars, crashed, metricVars, traceVars, prop>>

\* The correlation fields Send adds for span context sc.
CorrelationAlways(sc) ==
    <<FieldOf("trace_id", IDString(sc.trace)), FieldOf("span_id", IDString(sc.span))>>
Correlation(sc) ==
    IF IsValid(sc) THEN CorrelationAlways(sc) ELSE <<>>

\* The caller field Send adds.
CallerField(caller) ==
    IF caller # <<>> THEN <<FieldOf("caller", caller)>> ELSE <<>>

\* zapFieldsToOtelAttrs, one field: a string, bool, integer or time field
\* gives one attribute; a field of another type gives one only when its
\* String is not empty.
ZapFieldToOtelAttrs(f) ==
    CASE f.type = "String" -> <<Typed(f.key, "String", 0, f.val)>>
      [] f.type = "Bool" -> <<Typed(f.key, "Bool", IF f.n = 1 THEN 1 ELSE 0, <<>>)>>
      [] f.type \in {"Int64", "Int32", "Int16", "Int8"} -> <<Typed(f.key, "Int64", f.n, <<>>)>>
      [] f.type = "Time" -> <<Typed(f.key, "Int64", f.n, <<>>)>>
      [] OTHER -> IF f.val # <<>> THEN <<Typed(f.key, "String", 0, f.val)>> ELSE <<>>

\* zapFieldsToOtelAttrs
RECURSIVE ZapFieldsToOtelAttrs(_)
ZapFieldsToOtelAttrs(fields) ==
    IF fields = <<>> THEN <<>>
    ELSE ZapFieldToOtelAttrs(Head(fields)) \o ZapFieldsToOtelAttrs(Tail(fields))

\* The record Send hands to globalOtelLogger.Emit.
RemoteRecord(fields, sc, caller) ==
    [sink |-> "remoteLog", severity |-> otelSeverity(lb.level),
     fields |-> ZapFieldsToOtelAttrs(fields) \o Correlation(sc) \o CallerField(caller)]

\* b.fields as Send leaves it when the local logger is set.
LocalFields(fields, sc, caller) ==
    fields \o Correlation(sc) \o CallerField(caller)

\* Which sinks Send hands a record to.
RemoteConfiguredAlways(g) == TRUE
RemoteConfigured(g) == g.otelLogger # Nil
LocalConfigured(g) == g.logger # Nil

\* Send(): a record goes to the remote logger when globalOtelLogger is set,
\* and the remote pipeline takes it while the log exporter is open; a record
\* goes to the local zap logger when globalLogger is set.
SendSinks(g) ==
    (IF g.otelLogger # Nil /\ pipes[g.otelLogger]["log"] = "open"
     THEN {"remoteLog"} ELSE {})
    \cup (IF g.logger # Nil THEN {"localLog"} ELSE {})

\* b.Send()
LogSend(stack) ==
    /\ ~crashed
    /\ lb.sends < MaxSend
    /\ LET sc     == SpanContextOf(lb.ctx)
           caller == logCaller(globals, stack)
           remote == IF RemoteConfigured(globals)
                     THEN <<RemoteRecord(lb.fields, sc, caller)>> ELSE <<>>
           after  == IF LocalConfigured(globals)
                     THEN LocalFields(lb.fields, sc, caller) ELSE lb.fields
           local  == IF LocalConfigured(globals)
                     THEN << [sink |-> "localLog", severity |-> lb.level,
                              fields |-> after] >> ELSE <<>>
       IN  lb' = [lb EXCEPT !.fields = after, !.sends = @ + 1, !.entry = lb.fields,
                            !.at = lb.ctx, !.stack = stack,
                            !.out = remote \o local]
    /\ emitted' = SendSinks(globals)
    /\ UNCHANGED <<buildVars, lifeVars, crashed, metricVars, traceVars, prop>>

LogStep ==
    \/ LogNew
    \/ \E c \in {NilCtx} \cup {CtxWith(sc, 0) : sc \in LogSCs} : LogFromContext(c)
    \/ LogField("user", [type |-> "string", n |-> 0])
    \/ \E stack \in PlainStacks : LogSend(stack)

\* ---------------------------------------------------- PropagationBuilder

\* The key a carrier stores a header under: http.Header keys are in
\* canonical MIME form, metadata.MD keys are lower case, an amqp.Table
\* stores the key as given.
CanonKey(kind, key) ==
    IF kind \in {"http", "resp"}
    THEN CASE key = "traceparent" -> "Traceparent"
           [] key = "baggage"     -> "Baggage"
           [] key = "x-trace-id"  -> "X-Trace-Id"
           [] key = "x-span-id"   -> "X-Span-Id"
           [] OTHER               -> key
    ELSE key

\* A string header value, as the parts its text splits into at "-", each
\* part as its characters (a hex digit is 0..15, any other character 16).
Str(parts) == [t |-> "str", s |-> parts]
\* A header value of an amqp.Table that is not a string.
NotStr == [t |-> "int", s |-> <<>>]

\* carrier.Get(key): "" when the key is absent (or, for an amqp.Table, when
\* the value is not a string).
CarGet(car, key) ==
    LET k == CanonKey(car.kind, key)
    IN  IF k \in DOMAIN car.h /\ car.h[k].t = "str" THEN car.h[k].s ELSE <<>>

\* carrier.Set(key, val): the last write wins.  A write to a map that was
\* never made (state "nilmap") panics.
CarSet(car, key, val) ==
    IF car.state = "ok"
    THEN [car EXCEPT !.h = (CanonKey(car.kind, key) :> Str(val)) @@ @]
    ELSE [car EXCEPT !.state = "panic"]

\* The traceparent header for a span context: version, trace id, span id,
\* flags.
Traceparent(sc) ==
    <<<<0, 0>>, IDString(sc.trace), IDString(sc.span), <<0, 1>>>>

\* A part is two lower-case hex digits.
HexPair(part) == Len(part) = 2 /\ \A i \in 1..2 : part[i] \in 0..15

\* The header text has the traceparent layout: a version other than ff,
\* exactly four parts for version 00, and hex ids and flags.
WellFormed(v) ==
    /\ Len(v) >= 4
    /\ \A i \in 1..4 : HexPair(v[i])
    /\ v[1] # <<15, 15>>
    /\ v[1] = <<0, 0>> => Len(v) = 4

\* TraceContext.Extract's reading of the header: the remote span context, or
\* the empty one when the header is absent, malformed or names a zero id.
ParseTraceparent(v) ==
    IF ~WellFormed(v) THEN NoSC
    ELSE LET sc == [trace |-> 16 * v[2][1] + v[2][2],
                    span |-> 16 * v[3][1] + v[3][2], remote |-> TRUE]
         IN  IF IsValid(sc) THEN sc ELSE NoSC

\* The baggage header of a context's baggage, and its reading.
BaggageHeader(bag) == <<<<bag>>>>
ParseBaggage(v) ==
    IF Len(v) = 1 /\ Len(v[1]) = 1 /\ v[1][1] \in 1..15 THEN v[1][1] ELSE 0

\* globalPropagator.Extract: TraceContext, then Baggage.
PropagatorExtract(ctx, car) ==
    LET sc  == ParseTraceparent(CarGet(car, "traceparent"))
        c1  == IF sc # NoSC THEN [ctx EXCEPT !.sc = sc] ELSE ctx
        bag == ParseBaggage(CarGet(car, "baggage"))
    IN  IF bag # 0 THEN [c1 EXCEPT !.bag = bag] ELSE c1

\* globalPropagator.Inject: TraceContext, then Baggage.
PropagatorInject(ctx, car) ==
    LET c1 == IF IsValid(ctx.sc) THEN CarSet(car, "traceparent", Traceparent(ctx.sc))
              ELSE car
    IN  IF ctx.bag # 0 THEN CarSet(c1, "baggage", BaggageHeader(ctx.bag)) ELSE c1

\* The two plain-hex headers, written when the span context is valid.
LegacyWriteUnguarded(sc, car) ==
    CarSet(CarSet(car, "x-trace-id", <<IDString(sc.trace)>>),
           "x-span-id", <<IDString(sc.span)>>)
LegacyWrite(sc, car) ==
    IF ~IsValid(sc) THEN car
    ELSE CarSet(CarSet(car, "x-trace-id", <<IDString(sc.trace)>>),
                "x-span-id", <<IDString(sc.span)>>)

\* FromHTTPRequest(r): extracts onto r.Context().
FromHTTPRequest(g, rctx, car) ==
    IF g.propagator = Nil THEN rctx ELSE PropagatorExtract(rctx, car)

\* FromGRPCMetadata(ctx, md)
FromGRPCMetadata(g, ctx, car) ==
    IF g.propagator = Nil THEN ctx ELSE PropagatorExtract(ctx, car)

\* FromAMQP(headers): extracts onto p.ctx.
FromAMQPOntoBackground(g, p, car) ==
    IF g.propagator = Nil THEN Background ELSE PropagatorExtract(Background, car)
FromAMQP(g, p, car) ==
    IF g.propagator = Nil THEN p.bctx ELSE PropagatorExtract(p.bctx, car)

\* ToHTTPRequest(r)
ToHTTPRequest(g, p, car) ==
    IF g.propagator = Nil THEN car
    ELSE LET c1 == PropagatorInject(p.bctx, car)
         IN  IF ~p.legacy THEN c1 ELSE LegacyWrite(SpanContextOf(p.bctx), c1)

\* ToHTTPResponse(w)
ToHTTPResponseWithInject(p, car) ==
    LegacyWrite(SpanContextOf(p.bctx), PropagatorInject(p.bctx, car))
ToHTTPResponse(p, car) == LegacyWrite(SpanContextOf(p.bctx), car)

\* ToGRPCMetadata(ctx, md): for a nil md the code assigns through the nil
\* pointer (*md = metadata.MD{}), which panics.
ToGRPCMetadata(g, ctx, car) ==
    IF g.propagator = Nil THEN car
    ELSE IF car.state = "nilptr" THEN [car EXCEPT !.state = "panic"]
    ELSE PropagatorInject(ctx, car)

\* ToAMQP(headers)
ToAMQPLegacyOnly(g, p, car) ==
    IF g.propagator = Nil THEN car ELSE LegacyWrite(SpanContextOf(p.bctx), car)
ToAMQP(g, p, car) ==
    IF g.propagator = Nil THEN car
    ELSE LET c1 == PropagatorInject(p.bctx, car)
         IN  IF ~p.legacy THEN c1 ELSE LegacyWrite(SpanContextOf(p.bctx), c1)

\* Trace().FromContext(c): the builder starts from context.Background() (b)
\* and a nil ctx is ignored.
TraceFromContextIgnored(b, c) == b
TraceFromContext(b, c) == IF ~c.nil THEN c ELSE b

\* The id generator gives a new span an id no span in use has.
FreshSpanID(parent) == IF parent.span = 13 THEN 12 ELSE 13

\* The span context of the span tr.Start returns for a source context whose
\* span context is parent: a recording tracer makes a child in the parent's
\* trace, or a root in a fresh trace when the parent is not valid; the tracer
\* without a provider returns a span that carries the parent's span context.
StartedSC(g, parent) ==
    IF StartedKind(g) = "sdk"
    THEN IF IsValid(parent)
         THEN [trace |-> parent.trace, span |-> FreshSpanID(parent), remote |-> FALSE]
         ELSE [trace |-> 14, span |-> FreshSpanID(parent), remote |-> FALSE]
    ELSE parent

\* An empty header map.
NoHeaders == [k \in {} |-> NotStr]

\* The span context a peer encodes in the headers it sends.
PeerSC == [trace |-> 75, span |-> 8, remote |-> TRUE]

\* The carriers of a unit of work (the request or message that came in, or
\* the empty one the host is about to send), by kind: the headers, the span
\* context a valid identity header in them encodes (NoSC when they hold
\* none) and the baggage a valid baggage header encodes (0 when none).
CarrierKinds == {"http", "grpc", "amqp"}
Given(h, enc, bag) == [h |-> h, enc |-> enc, bag |-> bag, state |-> "ok"]
\* A carrier that was never made: a nil *metadata.MD ("nilptr"), a pointer
\* to a nil metadata.MD or a nil amqp.Table ("nilmap").
GivenNil(state) == [h |-> NoHeaders, enc |-> NoSC, bag |-> 0, state |-> state]
LegacyHeaders(kind) ==
    (CanonKey(kind, "x-trace-id") :> Str(<<<<0, 9>>>>))
    @@ (CanonKey(kind, "x-span-id") :> Str(<<<<0, 9>>>>))
GivenCarriers(kind) ==
    LET tp == CanonKey(kind, "traceparent")
        v  == <<0, 0>>
        t  == IDString(PeerSC.trace)
        sp == IDString(PeerSC.span)
        f  == <<0, 1>>
    IN  { Given(NoHeaders, NoSC, 0),
          Given(tp :> Str(<<v, t, sp, f>>), PeerSC, 0),
          Given(tp :> Str(<<v, <<0, 0>>, sp, f>>), NoSC, 0),
          Given(LegacyHeaders(kind), NoSC, 0),
          Given(CanonKey(kind, "baggage") :> Str(BaggageHeader(1)), NoSC, 1) }
        \cup (IF kind = "http"
              THEN { Given(tp :> Str(<<v, t, <<0, 0>>, f>>), NoSC, 0),
                     Given(tp :> Str(<<<<15, 15>>, t, sp, f>>), NoSC, 0),
                     Given(tp :> Str(<<v, <<16, 11>>, sp, f>>), NoSC, 0),
                     Given(tp :> Str(<<v, t>>), NoSC, 0),
                     Given(tp :> Str(<<v, t, sp, f, <<0, 0>>>>), NoSC, 0) }
              ELSE {})
        \cup (IF kind = "amqp"
              THEN { Given(tp :> NotStr, NoSC, 0),
                     Given("Traceparent" :> Str(<<v, t, sp, f>>), NoSC, 0),
                     GivenNil("nilmap") }
              ELSE {})
        \cup (IF kind = "grpc"
              THEN { GivenNil("nilmap"), GivenNil("nilptr") }
              ELSE {})

\* The headers the response already has when the handler runs.
GivenResponses ==
    { LegacyHeaders("resp"), "Content-Type" :> Str(<<<<1>>>>) }

\* The contexts the host holds: no span, a valid local span, a span context
\* with a zero span id, baggage without a span.
PropCtxs ==
    { Background,
      CtxWith([trace |-> 1, span |-> 2, remote |-> FALSE], 0),
      CtxWith([trace |-> 3, span |-> 0, remote |-> FALSE], 0),
      CtxWith(NoSC, 1) }

\* Propagate().FromContext(c).WithLegacyHeaders(enable): the builder starts
\* from context.Background() with legacy mode off; a nil ctx is ignored.
PropBuilder(c, enable) ==
    [bctx |-> IF ~c.nil THEN c ELSE Background, legacy |-> enable]

\* The carrier and the response of the unit of work, where the carrier's
\* content comes from (src) with the span context and baggage it encodes
\* (enc, bag) and whether the response was written; the context the last
\* call read (in), the legacy mode of its builder (legacy), the context it
\* returned (ret), the headers it found (pre); and how far the caller is in
\* extract, start a span, write the response (chain).
NewProp(kind, c, resp) ==
    [car |-> [kind |-> kind, h |-> c.h, state |-> c.state],
     resp |-> [kind |-> "resp", h |-> resp, state |-> "ok"],
     src |-> "given", enc |-> c.enc, bag |-> c.bag, written |-> FALSE,
     in |-> Background, legacy |-> FALSE, ret |-> Background, last |-> "none",
     pre |-> c.h, chain |-> 0]

\* FromHTTPRequest(r) / FromGRPCMetadata(ctx, md) /
\* Propagate().FromContext(c).FromAMQP(headers); c is r.Context(), the ctx
\* argument, or the context given to the builder.
PropExtract(c) ==
    /\ ~crashed
    /\ prop.car.kind = "amqp" \/ ~c.nil
    /\ prop.car.state # "nilptr"
    /\ LET k   == prop.car.kind
           p   == PropBuilder(c, FALSE)
           in  == IF k = "amqp" THEN p.bctx ELSE c
           out == CASE k = "http" -> FromHTTPRequest(globals, c, prop.car)
                    [] k = "grpc" -> FromGRPCMetadata(globals, c, prop.car)
                    [] k = "amqp" -> FromAMQP(globals, p, prop.car)
       IN  prop' = [prop EXCEPT !.in = in, !.legacy = FALSE, !.ret = out,
                                !.pre = prop.car.h, !.last = "extract",
                                !.chain = 1]
    /\ emitted' = {}
    /\ UNCHANGED <<buildVars, lifeVars, crashed, metricVars, traceVars, lb>>

\* Propagate().FromContext(c).WithLegacyHeaders(enable).ToHTTPRequest(r) /
\* .ToAMQP(headers), or Propagate().WithLegacyHeaders(enable).
\* ToGRPCMetadata(c, md).
PropInject(c, enable) ==
    /\ ~crashed
    /\ prop.src = "given"
    /\ prop.car.kind # "grpc" \/ ~c.nil
    /\ LET k   == prop.car.kind
           p   == PropBuilder(IF k = "grpc" THEN Background ELSE c, enable)
           in  == IF k = "grpc" THEN c ELSE p.bctx
           out == CASE k = "http" -> ToHTTPRequest(globals, p, prop.car)
                    [] k = "grpc" -> ToGRPCMetadata(globals, c, prop.car)
                    [] k = "amqp" -> ToAMQP(globals, p, prop.car)
           fromEmpty == prop.car.h = NoHeaders /\ IsValid(in.sc)
       IN  /\ crashed' = (out.state = "panic")
           /\ prop' = [prop EXCEPT
                                !.car = IF out.state = "panic" THEN @ ELSE out,
                                !.in = in, !.legacy = enable,
                                !.pre = prop.car.h, !.last = "inject",
                                !.chain = 0,
                                !.src = IF fromEmpty THEN "injected" ELSE "sent",
                                !.enc = IF fromEmpty THEN in.sc ELSE NoSC,
                                !.bag = 0]
    /\ emitted' = {}
    /\ UNCHANGED <<buildVars, lifeVars, metricVars, traceVars, lb>>

\* Propagate().FromContext(c).WithLegacyHeaders(enable).ToHTTPResponse(w)
PropResponse(c, enable) ==
    /\ ~crashed
    /\ ~prop.written
    /\ LET p == PropBuilder(c, enable)
       IN  prop' = [prop EXCEPT !.resp = ToHTTPResponse(p, prop.resp),
                                !.in = p.bctx, !.legacy = enable,
                                !.pre = prop.resp.h, !.last = "response",
                                !.written = TRUE,
                                !.chain = IF prop.chain = 2 /\ c = prop.ret
                                          THEN 3 ELSE 0]
    /\ emitted' = {}
    /\ UNCHANGED <<buildVars, lifeVars, crashed, metricVars, traceVars, lb>>

\* ctx, span := Trace().FromContext(ctx).Start() on the context the last
\* call returned.
PropStart ==
    /\ ~crashed
    /\ prop.last \in {"none", "extract"}
    /\ LET source == TraceFromContext(Background, prop.ret)
       IN  prop' = [prop EXCEPT !.in = prop.ret, !.legacy = FALSE,
                                !.ret = [source EXCEPT
                                            !.sc = StartedSC(globals, SpanContextOf(source))],
                                !.pre = prop.car.h, !.last = "start",
                                !.chain = IF prop.chain = 1 THEN 2 ELSE 0]
    /\ emitted' = {}
    /\ UNCHANGED <<buildVars, lifeVars, crashed, metricVars, traceVars, lb>>

PropStep ==
    \/ \E c \in PropCtxs \cup {NilCtx} : PropExtract(c)
    \/ \E c \in PropCtxs \cup {NilCtx, prop.ret}, b \in BOOLEAN : PropInject(c, b)
    \/ \E c \in PropCtxs \cup {NilCtx, prop.ret}, b \in BOOLEAN : PropResponse(c, b)
    \/ PropStart

\* -------------------------------------------------- AMQPConsumerInterceptor

\* The wrapper between messages.  Of the message at hand: headers, the
\* context extracted from them, the parent span context the span was started
\* from, the span with its span context and kind, the handler's result;
\* started and endCalls count the spans started and the End calls, adds and
\* records list the status attribute of each value recorded on the counter
\* and the histogram; ret is how the wrapper was left.
IdleConsumer ==
    [pc |-> "idle", msgs |-> 0, headers |-> NoHeaders, enc |-> NoSC,
     ctx |-> Background, parent |-> NoSC, span |-> NilSpan, sc |-> NoSC,
     spanKind |-> "none", err |-> "nil", panicking |-> FALSE,
     started |-> 0, endCalls |-> 0, adds |-> <<>>, records |-> <<>>, ret |-> "none"]

\* status := "success"; if err != nil { status = "error" }
ConsumeStatusAlwaysSuccess(err) == "success"
ConsumeStatus(err) == IF err # "nil" THEN "error" ELSE "success"

\* What Add / Record get from getOrCreateCounter / getOrCreateHistogram when
\* no other goroutine holds the mutex: the cached instrument, a new one, or
\* nil when the meter fails.
ResolveInstr(kind, name, ok) ==
    IF CacheHit(kind, name, BuilderSchema(kind, "", "")) THEN cache[kind][name]
    ELSE IF ok THEN [gen |-> created[kind][name] + 1, meter |-> globals.meter]
    ELSE NoInstr

\* The wrapper gets a message: Propagate().FromContext(baseCtx).FromAMQP(
\* msg.Headers), then Trace()...Kind(SpanKindConsumer)...Run starts the span
\* and calls the handler.
ConsumeDeliver(c) ==
    /\ ~crashed
    /\ cons.pc \in {"idle", "returned"}
    /\ cons.msgs < MaxMsgs
    /\ LET car == [kind |-> "amqp", h |-> c.h, state |-> c.state]
           ctx == FromAMQP(globals, PropBuilder(Background, FALSE), car)
           st  == TraceStart(globals, "ctx", AttrKeys)
       IN  /\ cons' = [IdleConsumer EXCEPT
                         !.pc = "inHandler", !.msgs = cons.msgs + 1,
                         !.headers = c.h, !.enc = c.enc, !.ctx = ctx,
                         !.parent = SpanContextOf(TraceFromContext(Background, ctx)),
                         !.span = st.span,
                         !.sc = StartedSC(globals, SpanContextOf(TraceFromContext(Background, ctx))),
                         !.spanKind = "consumer", !.started = 1]
           /\ crashed' = st.panics
    /\ emitted' = {}
    /\ UNCHANGED <<ab, ts, lb, prop, lifeVars, metricVars, traceVars>>

\* The handler comes back.  After a return the closure counts the message
\* and records the latency, both tagged with the status, and returns err to
\* Run; a panic of the handler leaves the closure at once.
ConsumeHandler(outcome, okC, okH) ==
    /\ ~crashed
    /\ cons.pc = "inHandler"
    /\ \A k \in InstrKinds : LockFree(k)
    /\ IF outcome = "panic"
       THEN /\ cons' = [cons EXCEPT !.pc = "deferred", !.panicking = TRUE]
            /\ emitted' = {}
            /\ UNCHANGED <<cache, created, instrSchema>>
       ELSE LET status == ConsumeStatus(outcome)
                on     == MetricsOn(globals)
                cn     == "amqp_consume_total"
                hn     == "amqp_consume_duration_ms"
                c      == IF on THEN ResolveInstr("counter", cn, okC) ELSE NoInstr
                h      == IF on THEN ResolveInstr("histogram", hn, okH) ELSE NoInstr
                newC   == c # NoInstr /\ cache["counter"][cn] = NoInstr
                newH   == h # NoInstr /\ cache["histogram"][hn] = NoInstr
                sent   == {i \in {c, h} : i # NoInstr /\ pipes[i.meter]["metric"] = "open"}
            IN  /\ cons' = [cons EXCEPT
                              !.pc = "afterFn", !.err = outcome,
                              !.adds = IF c # NoInstr THEN Append(@, status) ELSE @,
                              !.records = IF h # NoInstr THEN Append(@, status) ELSE @]
                /\ cache' = [cache EXCEPT
                               !["counter"][cn] = IF newC THEN c ELSE @,
                               !["histogram"][hn] = IF newH THEN h ELSE @]
                /\ created' = [created EXCEPT
                                 !["counter"][cn] = IF newC THEN @ + 1 ELSE @,
                                 !["histogram"][hn] = IF newH THEN @ + 1 ELSE @]
                /\ instrSchema' = [instrSchema EXCEPT
                                     !["counter"][cn] =
                                        IF newC THEN BuilderSchema("counter", "", "") ELSE @,
                                     !["histogram"][hn] =
                                        IF newH THEN BuilderSchema("histogram", "", "") ELSE @]
                /\ emitted' = IF sent # {} THEN {"metric"} ELSE {}
    /\ UNCHANGED <<ab, ts, lb, prop, lifeVars, crashed, mu, thr, traceVars>>

\* Run has err: RecordError and SetStatus on a failure (both on by default),
\* the deferred span.End(), and the wrapper drops what Run returns; a panic
\* of the handler goes on through the wrapper after the deferred End.
ConsumeFinish ==
    /\ ~crashed
    /\ cons.pc \in {"afterFn", "deferred"}
    /\ LET s1 == IF cons.pc = "afterFn" /\ cons.err # "nil"
                 THEN RunOnError(cons.span, cons.err, TRUE, TRUE) ELSE cons.span
           e  == EndEffect(s1)
       IN  /\ cons' = [cons EXCEPT !.pc = "returned", !.span = e.span,
                                   !.endCalls = @ + 1,
                                   !.ret = IF cons.panicking THEN "panic" ELSE "returned"]
           /\ emitted' = e.out
    /\ UNCHANGED <<ab, ts, lb, prop, lifeVars, crashed, metricVars, traceVars>>

ConsumeNext ==
    \/ \E c \in GivenCarriers("amqp") : ConsumeDeliver(c)
    \/ \E o \in Errs \cup {"nil", "panic"}, okC \in BOOLEAN, okH \in BOOLEAN :
          ConsumeHandler(o, okC, okH)
    \/ ConsumeFinish

\* ------------------------------------------------------ helper.TraceStruct

\* The zero TraceStruct: every field nil.  A span field holds the position of
\* its span in spans (0 for nil); spans lists the spans started through the
\* struct with the End() calls made on each; closes counts TraceClose calls
\* and closed says the last call was one.
ZeroTrace ==
    [Trace |-> 0, TraceCtx |-> 0, TraceSpan |-> 0, TraceSpanCtx |-> 0,
     TraceChildSpan |-> 0, TraceChildSpanCtx |-> 0,
     spans |-> <<>>, closes |-> 0, closed |-> FALSE]

\* eto.Trace().Name(name).FromContext(ctx).Start() noted in the struct's list.
StartIn(t, role, given) ==
    Append(t.spans, [role |-> role, span |-> TraceStart(globals, given, {}).span,
                     endCalls |-> 0])

\* span.End() on the span at position i.
EndAt(t, i) ==
    [t EXCEPT !.spans[i] = [role |-> t.spans[i].role,
                            span |-> EndEffect(t.spans[i].span).span,
                            endCalls |-> t.spans[i].endCalls + 1]]

\* EndChild: nothing without a child span, otherwise End and clear.
EndChildOf(t) ==
    IF t.TraceChildSpan = 0 THEN t
    ELSE [EndAt(t, t.TraceChildSpan) EXCEPT !.TraceChildSpan = 0, !.TraceChildSpanCtx = 0]
EndChildOut(t) ==
    IF t.TraceChildSpan = 0 THEN {} ELSE EndEffect(t.spans[t.TraceChildSpan].span).out

\* EndSpan: nothing without a span, otherwise End and clear.
EndSpanOf(t) ==
    IF t.TraceSpan = 0 THEN t
    ELSE [EndAt(t, t.TraceSpan) EXCEPT !.TraceSpan = 0, !.TraceSpanCtx = 0]
EndSpanOut(t) ==
    IF t.TraceSpan = 0 THEN {} ELSE EndEffect(t.spans[t.TraceSpan].span).out

\* t.Trace.Done() when t.Trace is set.
TraceDoneOf(t) ==
    IF t.Trace # 0 /\ DoneEndsSpan([kind |-> "span", span |-> t.spans[t.Trace].span])
    THEN EndAt(t, t.Trace) ELSE t
TraceDoneOut(t) ==
    IF t.Trace # 0 /\ DoneEndsSpan([kind |-> "span", span |-> t.spans[t.Trace].span])
    THEN EndEffect(t.spans[t.Trace].span).out ELSE {}

\* helper.TraceCtx(ctx, name)
HelperTraceCtx(given) ==
    /\ ~crashed
    /\ ts.spans = <<>>
    /\ ts' = [ZeroTrace EXCEPT !.Trace = 1, !.TraceCtx = 1,
                               !.spans = StartIn(ZeroTrace, "trace", given)]
    /\ emitted' = {}
    /\ UNCHANGED <<ab, cons, lb, prop, lifeVars, crashed, metricVars, traceVars>>

\* t.Span(name): the new span is stored over whatever the field held.
HelperSpan ==
    /\ ~crashed
    /\ Len(ts.spans) < MaxSpans
    /\ ts' = IF ts.TraceCtx = 0 THEN [ts EXCEPT !.closed = FALSE]
             ELSE [ts EXCEPT !.spans = StartIn(ts, "span", "ctx"),
                             !.TraceSpan = Len(ts.spans) + 1,
                             !.TraceSpanCtx = Len(ts.spans) + 1,
                             !.closed = FALSE]
    /\ emitted' = {}
    /\ UNCHANGED <<ab, cons, lb, prop, lifeVars, crashed, metricVars, traceVars>>

\* t.ChildSpan(name): likewise.
HelperChildSpan ==
    /\ ~crashed
    /\ Len(ts.spans) < MaxSpans
    /\ ts' = IF ts.TraceSpanCtx = 0 THEN [ts EXCEPT !.closed = FALSE]
             ELSE [ts EXCEPT !.spans = StartIn(ts, "child", "ctx"),
                             !.TraceChildSpan = Len(ts.spans) + 1,
                             !.TraceChildSpanCtx = Len(ts.spans) + 1,
                             !.closed = FALSE]
    /\ emitted' = {}
    /\ UNCHANGED <<ab, cons, lb, prop, lifeVars, crashed, metricVars, traceVars>>

\* t.EndSpan()
HelperEndSpan ==
    /\ ~crashed
    /\ ts' = [EndSpanOf(ts) EXCEPT !.closed = FALSE]
    /\ emitted' = EndSpanOut(ts)
    /\ UNCHANGED <<ab, cons, lb, prop, lifeVars, crashed, metricVars, traceVars>>

\* t.EndChild()
HelperEndChild ==
    /\ ~crashed
    /\ ts' = [EndChildOf(ts) EXCEPT !.closed = FALSE]
    /\ emitted' = EndChildOut(ts)
    /\ UNCHANGED <<ab, cons, lb, prop, lifeVars, crashed, metricVars, traceVars>>

\* t.TraceClose(): EndChild, EndSpan, then Done on the scope.
HelperTraceClose ==
    /\ ~crashed
    /\ ts.closes < MaxClose
    /\ LET t1 == EndChildOf(ts)
           t2 == EndSpanOf(t1)
           t3 == TraceDoneOf(t2)
       IN  /\ ts' = [t3 EXCEPT !.closes = @ + 1, !.closed = TRUE]
           /\ emitted' = EndChildOut(ts) \cup EndSpanOut(t1) \cup TraceDoneOut(t2)
    /\ UNCHANGED <<ab, cons, lb, prop, lifeVars, crashed, metricVars, traceVars>>

HelperNext ==
    \/ \E given \in GivenCtxs : HelperTraceCtx(given)
    \/ HelperSpan
    \/ HelperChildSpan
    \/ HelperEndSpan
    \/ HelperEndChild
    \/ HelperTraceClose

\* ------------------------------------------------------------- attributes

\* attribute.String / Int / Int64 / Float64 / Bool
AttrString(key, text) == [key |-> key, type |-> "STRING", n |-> 0, text |-> text]
AttrInt64(key, n) == [key |-> key, type |-> "INT64", n |-> n, text |-> <<>>]
AttrFloat64(key, n) == [key |-> key, type |-> "FLOAT64", n |-> n, text |-> <<>>]
AttrBool(key, b) == [key |-> key, type |-> "BOOL", n |-> IF b THEN 1 ELSE 0, text |-> <<>>]

\* anyToAttr: the type switch names string, int, int64, float64 and bool;
\* every other dynamic type takes the default branch.
anyToAttr(key, val) ==
    CASE val.type = "string" -> AttrString(key, GoString(val.n))
      [] val.type = "int" -> AttrInt64(key, val.n)
      [] val.type = "int64" -> AttrInt64(key, val.n)
      [] val.type = "float64" -> AttrFloat64(key, val.n)
      [] val.type = "bool" -> AttrBool(key, val.n # 0)
      [] OTHER -> AttrString(key, Sprint(val))

\* The type switch of TraceBuilder.Attr: the same cases.
TraceAttrOf(key, val) ==
    CASE val.type = "string" -> AttrString(key, GoString(val.n))
      [] val.type = "int" -> AttrInt64(key, val.n)
      [] val.type = "int64" -> AttrInt64(key, val.n)
      [] val.type = "float64" -> AttrFloat64(key, val.n)
      [] val.type = "bool" -> AttrBool(key, val.n # 0)
      [] OTHER -> AttrString(key, Sprint(val))

\* MetricCounter(name), MetricHistogram(name), Trace(name): no attributes.
\* given is the values Attr was called with, in order.
BuilderKinds == {"counter", "histogram", "trace"}
NewAttrs(kind) == [kind |-> kind, attrs |-> <<>>, given |-> <<>>]

AttrNew(kind) ==
    /\ ab' = NewAttrs(kind)
    /\ emitted' = {}
    /\ UNCHANGED <<ts, cons, lb, prop, lifeVars, crashed, metricVars, traceVars>>

\* CounterBuilder.Attr / HistogramBuilder.Attr / TraceBuilder.Attr
BuilderAttr(key, val) ==
    /\ Len(ab.attrs) < MaxAttrs
    /\ ab' = [ab EXCEPT !.attrs = Append(@, IF ab.kind = "trace"
                                            THEN TraceAttrOf(key, val)
                                            ELSE anyToAttr(key, val)),
                        !.given = Append(@, val)]
    /\ emitted' = {}
    /\ UNCHANGED <<ts, cons, lb, prop, lifeVars, crashed, metricVars, traceVars>>

AttrNext ==
    \/ \E kind \in BuilderKinds : AttrNew(kind)
    \/ \E val \in GoValues : BuilderAttr("k", val)

\* ---------------------------------------------------------- specifications

vars == <<globals, pipes, inits, shutdownCount, lastShutdown, emitted, crashed,
          mu, cache, created, instrSchema, thr, run, scope, lb, prop, ab, ts, cons>>

\* Outside the propagation model the caller holds an empty HTTP request.
IdleProp == NewProp("http", Given(NoHeaders, NoSC, 0), NoHeaders)

RestInit ==
    /\ shutdownCount = 0
    /\ lastShutdown = [attempted |-> {}, failed |-> {}, ret |-> "none"]
    /\ emitted = {}
    /\ crashed = FALSE
    /\ mu = [k \in InstrKinds |-> 0]
    /\ cache = [k \in InstrKinds |-> [n \in CachedNames |-> NoInstr]]
    /\ created = [k \in InstrKinds |-> [n \in CachedNames |-> 0]]
    /\ instrSchema = [k \in InstrKinds |-> [n \in CachedNames |-> NoSchema]]
    /\ thr = [t \in Threads |-> IdleThread]
    /\ run = IdleRun
    /\ scope = NoScope
    /\ lb = NewLog
    /\ ab = NewAttrs("counter")
    /\ ts = ZeroTrace
    /\ cons = IdleConsumer

StartAfter(h) ==
    LET s == RunInits(h)
    IN  /\ globals = s.globals
        /\ pipes = s.pipes
        /\ inits = s.inits

MetricInit == (\E h \in StartHistories : StartAfter(h)) /\ RestInit /\ prop = IdleProp

MetricNext == \E t \in Threads : MetricStep(t)

SpecMetric == MetricInit /\ [][MetricNext]_vars

TraceInit == (\E h \in StartHistories : StartAfter(h)) /\ RestInit /\ prop = IdleProp

TraceNext == RunStep \/ ScopeStep

SpecTrace == TraceInit /\ [][TraceNext]_vars

\* One goroutine that sets unit and description on its builders.
UnitNext ==
    \/ \E k \in InstrKinds, n \in InstrNames, u \in {"", "By"}, d \in {"", "size"} :
          MetricCallWith(1, k, n, u, d)
    \/ AcquireLock(1)
    \/ Lookup(1)
    \/ \E ok \in BOOLEAN : CreateInstrument(1, ok)
    \/ ReleaseLock(1)
    \/ RecordValue(1)

SpecUnit == MetricInit /\ [][UnitNext]_vars

HelperInit == (\E h \in StartHistories : StartAfter(h)) /\ RestInit /\ prop = IdleProp

SpecHelper == HelperInit /\ [][HelperNext]_vars

ConsumeInit == (\E h \in StartHistories : StartAfter(h)) /\ RestInit /\ prop = IdleProp

SpecConsume == ConsumeInit /\ [][ConsumeNext]_vars

AttrInit == StartAfter(<<>>) /\ RestInit /\ prop = IdleProp

SpecAttr == AttrInit /\ [][AttrNext]_vars

\* The log builder after each startup history, up to a failure at the zap
\* logger (the remote logger is set and the local one is not).
LogHistories ==
    StartHistories \cup { <<[cfg |-> CfgOff, failAt |-> "zap"]>> }

LogInit == (\E h \in LogHistories : StartAfter(h)) /\ RestInit /\ prop = IdleProp

LogNext == LogStep

SpecLog == LogInit /\ [][LogNext]_vars

\* Configurations with caller exclusions: a package prefix, a file
\* substring, and empty entries.
SkipConfigs ==
    [ServiceName : {"svc"}, EnableMetrics : {FALSE},
     SkipCallerPkgs : {<<>>, << <<2>> >>, << <<>>, <<2, 47>> >>},
     SkipCallerFiles : {<<>>, << <<25>> >>, << <<>> >>}]

\* The stacks Send is called on: up to MaxStack frames above Send, and an
\* application function reached through 31 and through 32 frames of the
\* utils package.
CallerStacks ==
    { StackAbove(above) :
        above \in UNION {[1..n -> Frames] : n \in 0..MaxStack}
                  \cup {Wrapped(n) \o <<AppFrame>> : n \in {maxDepth - 1, maxDepth}} }

CallerInit ==
    /\ \/ StartAfter(<<>>)
       \/ \E cfg \in SkipConfigs : StartAfter(<<[cfg |-> cfg, failAt |-> "none"]>>)
    /\ RestInit
    /\ prop = IdleProp

CallerNext ==
    \/ LogNew
    \/ \E stack \in CallerStacks : LogSend(stack)

SpecCaller == CallerInit /\ [][CallerNext]_vars

\* A builder on the background context: its level, one field of any type,
\* and Send.
FieldNext ==
    \/ LogNew
    \/ \E level \in LogLevels : LogLevel(level)
    \/ \E val \in LogValues : LogField("user", val)
    \/ \E stack \in PlainStacks : LogSend(stack)

SpecField == LogInit /\ [][FieldNext]_vars

\* Propagation with no Init, after a successful Init, and after an Init that
\* failed at the log exporter (a tracer provider and no propagator).  Each
\* unit of work sends its carrier once and writes its response once.
PropHistories ==
    { <<>>,
      <<[cfg |-> CfgOff, failAt |-> "none"]>>,
      <<[cfg |-> CfgOff, failAt |-> "log"]>> }

PropInit ==
    /\ \E h \in PropHistories : StartAfter(h)
    /\ RestInit
    /\ \E k \in CarrierKinds : \E c \in GivenCarriers(k) : \E r \in GivenResponses :
          prop = NewProp(k, c, r)

PropNext == PropStep

SpecProp == PropInit /\ [][PropNext]_vars

\* The lifecycle alone: Init, retried after a failure, and the shutdown
\* callback, with every failure each can meet.
LifeInit == StartAfter(<<>>) /\ RestInit /\ prop = IdleProp

LifeNext ==
    \/ \E cfg \in Configs, f \in InitFailPoints \cup {"none"} : InitCall(cfg, f)
    \/ \E failing \in SUBSET ShutdownKinds : ShutdownCall(failing)

SpecLife == LifeInit /\ [][LifeNext]_vars

\* One caller that uses the builders before, between and after the lifecycle
\* calls; it makes one call at a time.
CallerIdle == run.pc = "idle" /\ scope.kind = "none" /\ thr[1].pc = "idle"

FacadeNext ==
    \/ CallerIdle /\ \E cfg \in Configs, f \in InitFailPoints \cup {"none"} :
                        InitCall(cfg, f)
    \/ CallerIdle /\ \E failing \in {{}, {"trace"}} : ShutdownCall(failing)
    \/ CallerIdle /\ LogNew
    \/ CallerIdle /\ LogSend(StackAbove(<<UnknownFrame>>))
    \/ CallerIdle /\ \E k \in InstrKinds : MetricCall(1, k, "n1")
    \/ AcquireLock(1)
    \/ Lookup(1)
    \/ \E ok \in BOOLEAN : CreateInstrument(1, ok)
    \/ ReleaseLock(1)
    \/ RecordValue(1)
    \/ CallerIdle /\ \E fnNil \in BOOLEAN, given \in GivenCtxs :
                        RunBegin(fnNil, TRUE, TRUE, given, {})
    \/ \E o \in Errs \cup {"nil", "panic"} : RunFn(o)
    \/ RunHandleResult
    \/ RunExit
    \/ RunReturn
    \/ CallerIdle /\ \E k \in {"nil", "span"} : ScopeNew(k, "ctx", {})
    \/ \E attrs \in SUBSET AttrKeys : ScopeSetAttributes(attrs)
    \/ ScopeDone
    \/ ScopeDrop

SpecFacade == LifeInit /\ [][FacadeNext]_vars

\* ------------------------------------------------------------------ claims

\* C1: under any interleaving of concurrent Add / Record calls, the meter
\* creates the instrument of a name at most once successfully, the cache
\* entry of a name, once set, is that first instrument and is never replaced
\* or removed, and every call that resolved an instrument holds the cached one.
C1_OneInstrumentPerName ==
    /\ \A k \in InstrKinds, n \in InstrNames :
          /\ created[k][n] <= 1
          /\ cache[k][n] = IF created[k][n] = 0 THEN NoInstr
                           ELSE [gen |-> 1, meter |-> globals.meter]
    /\ \A t \in Threads :
          thr[t].c # NoInstr => thr[t].c = cache[thr[t].kind][thr[t].name]

\* Two goroutines are inside calls for the same name at once and both hold
\* the one cached instrument.
C1_Witness ==
    \E t1 \in Threads, t2 \in Threads :
        /\ t1 # t2
        /\ thr[t1].pc = "record" /\ thr[t2].pc = "record"
        /\ thr[t1].kind = thr[t2].kind /\ thr[t1].name = thr[t2].name
        /\ thr[t1].c # NoInstr /\ thr[t2].c # NoInstr

\* C2: while metrics are disabled in the configuration or no meter was
\* installed, every Add / Record call returns at once without a panic, no
\* value reaches the metric pipeline, no instrument is created and both
\* caches (and their locks) stay as they were.
C2_DisabledMetricsAreNoOps ==
    (~globals.cfg.EnableMetrics \/ globals.meter = Nil) =>
        /\ ~crashed
        /\ emitted = {}
        /\ \A t \in Threads : thr[t].pc = "idle" /\ thr[t].last \in {"none", "noop"}
        /\ \A k \in InstrKinds :
              /\ mu[k] = 0
              /\ \A n \in InstrNames : cache[k][n] = NoInstr /\ created[k][n] = 0

\* Metrics are off although a meter exists, and every goroutine has made a call.
C2_Witness ==
    /\ ~globals.cfg.EnableMetrics
    /\ globals.meter # Nil
    /\ \A t \in Threads : thr[t].last = "noop"

\* C3: when Run has left with a non-nil fn, it started exactly one span and
\* has called End on it (a recording span is ended), whether fn returned
\* nil, returned a failure or panicked.
C3_RunEndsSpanOnEveryExit ==
    (run.pc = "exited" /\ run.ret # "errNilFn") =>
        /\ run.started = 1
        /\ run.endCalled
        /\ run.span.kind = "sdk" => run.span.ended

\* Run has left by a panic of fn and its recording span is ended.
C3_Witness ==
    /\ run.pc = "exited"
    /\ run.ret = "panic"
    /\ run.span.kind = "sdk"
    /\ run.span.ended

\* C4: with the default builder configuration (record the error, set the
\* status), when fn returned failure e, the recording span Run ended has
\* status Error with e's text as message and e among its recorded
\* exceptions, and Run returned e.
C4_RunRecordsFailure ==
    (/\ run.pc = "exited"
     /\ run.recordErr /\ run.setStatus
     /\ run.err \in Errs
     /\ run.span.kind = "sdk") =>
        /\ run.span.ended
        /\ run.span.status = "Error"
        /\ run.span.msg = ErrText(run.err)
        /\ run.err \in run.span.exceptions
        /\ run.ret = run.err

\* Run has returned a failure of fn and the ended span was delivered.
C4_Witness ==
    /\ run.pc = "exited"
    /\ run.recordErr /\ run.setStatus
    /\ run.ret = "errTimeout"
    /\ run.span.kind = "sdk"
    /\ run.span.exported = 1

\* C5: after n >= 1 calls of Done() the span is as the first call left it,
\* a recording span is ended and was delivered exactly once; Done() on a nil
\* scope or a scope with no span changes nothing and does not panic.
C5_DoneIdempotent ==
    /\ scope.kind \in {"nil", "empty"} => (~crashed /\ scope.span = NilSpan)
    /\ (scope.kind = "span" /\ scope.done >= 1) =>
          /\ ~crashed
          /\ scope.span = scope.first
          /\ scope.span.kind = "sdk" => (scope.span.ended /\ scope.span.exported = 1)

\* Done() was called more than once on a scope that holds a recording span.
C5_Witness ==
    /\ scope.kind = "span"
    /\ scope.span.kind = "sdk"
    /\ scope.done >= 2

\* C6: outside the live phase (before Init has succeeded, or once the
\* shutdown callback has run) no builder operation panics and no record
\* reaches the local sink or a remote pipeline.
C6_SilentOutsideLifecycle ==
    /\ ~crashed
    /\ Phase # "live" => emitted = {}

\* C7: with no tracer provider installed, the span Start returns is the
\* inert span (not nil), the context returned with it is not nil, and
\* SetAttributes and End on it change nothing, deliver nothing and do not
\* panic.
C7_InertSpanWithoutTracer ==
    globals.otelTP = Nil =>
        /\ ~crashed
        /\ emitted = {}
        /\ run.started = 1 => (run.span = InertSpan /\ run.ctx # "nil")
        /\ scope.kind = "span" => (scope.span = InertSpan /\ scope.ctx # "nil")

\* No tracer provider, and the span of a scope has had SetAttributes and
\* End called on it.
C7_Witness ==
    /\ globals.otelTP = Nil
    /\ scope.kind = "span"
    /\ scope.attrSet
    /\ scope.done >= 1

\* The package variables as Init call i left them.
GlobalsAfter(i) == IF i < Len(inits) THEN inits[i + 1].pre ELSE globals

\* C8: an Init call that returned an error left every process-wide handle,
\* and the global configuration, as it found them.
C8_InitAllOrNothing ==
    \A i \in 1..Len(inits) :
        inits[i].result = "error" => GlobalsAfter(i) = inits[i].pre

\* C9: an Init call that returned an error left none of the exporters it
\* constructed open.
C9_FailedInitClosesPipelines ==
    \A i \in 1..Len(inits) :
        inits[i].result = "error" => \A k \in ExportKinds : pipes[i][k] # "open"

\* The pipelines the installed configuration has: trace, log and the local
\* logger, and metric if enabled.
ConfiguredKinds ==
    {"trace", "log", "logger"}
        \cup (IF globals.cfg.EnableMetrics THEN {"metric"} ELSE {})

\* C10: the shutdown callback attempts the shutdown of every configured
\* pipeline, whichever of the earlier shutdowns failed.
C10_ShutdownAttemptsEveryPipeline ==
    shutdownCount > 0 => ConfiguredKinds \subseteq lastShutdown.attempted

\* The callback ran, the first shutdown (trace) failed, and all four were
\* attempted.
C10_Witness ==
    /\ shutdownCount > 0
    /\ "trace" \in lastShutdown.failed
    /\ lastShutdown.attempted = ShutdownKinds

\* C11: the shutdown callback returns nil exactly when no pipeline shutdown
\* it attempted failed; when at least one failed it returns a non-nil error.
C11_ShutdownReportsFailures ==
    lastShutdown.ret # "none" =>
        (lastShutdown.ret = "nil" <=> lastShutdown.failed = {})

\* How many fields of a record have the key.
KeyCount(fields, key) == Cardinality({i \in 1..Len(fields) : fields[i].key = key})

\* The records the last Send handed to a sink.
RecordsTo(sink) == {i \in 1..Len(lb.out) : lb.out[i].sink = sink}

\* C12: when the context of the builder has no valid active span, Send adds
\* no trace_id and no span_id field to the record of either sink: the record
\* of a builder's first Send has none.
C12_NoCorrelationWithoutSpan ==
    (lb.sends >= 1 /\ (lb.at.sc.trace = 0 \/ lb.at.sc.span = 0)) =>
        \A i \in 1..Len(lb.out) : \A k \in {"trace_id", "span_id"} :
            /\ KeyCount(lb.out[i].fields, k) = KeyCount(lb.entry, k)
            /\ lb.sends = 1 => KeyCount(lb.out[i].fields, k) = 0

\* A first Send with a span context whose span id is zero reached both sinks.
C12_Witness ==
    /\ lb.sends = 1
    /\ lb.at.sc.trace # 0 /\ lb.at.sc.span = 0
    /\ Len(lb.out) = 2

\* The record carries the ids of span context sc as trace_id and span_id.
CarriesIds(fields, sc) ==
    /\ \E i \in 1..Len(fields) :
          /\ fields[i].key = "trace_id"
          /\ fields[i].val = <<sc.trace \div 16, sc.trace % 16>>
    /\ \E i \in 1..Len(fields) :
          /\ fields[i].key = "span_id"
          /\ fields[i].val = <<sc.span \div 16, sc.span % 16>>

\* C13: when the context the builder holds as Send runs has a valid active
\* span S, the record of each sink carries S's trace id and span id (on a
\* builder's first Send, no other); and a record, once emitted, is not
\* changed by what the caller does to the builder's context afterwards.
C13_CorrelationAtSend ==
    /\ [](  (lb.sends >= 1 /\ lb.at.sc.trace # 0 /\ lb.at.sc.span # 0) =>
              \A i \in 1..Len(lb.out) :
                 /\ CarriesIds(lb.out[i].fields, lb.at.sc)
                 /\ lb.sends = 1 =>
                       /\ KeyCount(lb.out[i].fields, "trace_id") = 1
                       /\ KeyCount(lb.out[i].fields, "span_id") = 1 )
    /\ [][ lb'.sends = lb.sends => (lb'.out = lb.out /\ lb'.at = lb.at) ]_vars

\* A Send under a valid span reached both sinks, and the builder's context
\* was then changed to one with another span.
C13_Witness ==
    /\ lb.sends = 1
    /\ lb.at.sc.trace # 0 /\ lb.at.sc.span # 0
    /\ Len(lb.out) = 2
    /\ lb.ctx.sc.trace # 0 /\ lb.ctx.sc.trace # lb.at.sc.trace

\* C14: Send hands exactly one record to the remote logger if and only if
\* globalOtelLogger is set and exactly one to the local logger if and only
\* if globalLogger is set; with neither set it emits nothing and leaves the
\* builder as it was.
C14_OneRecordPerConfiguredSink ==
    lb.sends >= 1 =>
        /\ Cardinality(RecordsTo("remoteLog")) = (IF globals.otelLogger # Nil THEN 1 ELSE 0)
        /\ Cardinality(RecordsTo("localLog")) = (IF globals.logger # Nil THEN 1 ELSE 0)
        /\ (globals.otelLogger = Nil /\ globals.logger = Nil) =>
              (lb.out = <<>> /\ lb.fields = lb.entry /\ emitted = {})

\* Send ran with the remote logger set and the local one not.
C14_Witness ==
    /\ lb.sends >= 1
    /\ globals.otelLogger # Nil /\ globals.logger = Nil
    /\ Len(lb.out) = 1

\* The value a carrier returns for a header, "" when it has none.
HeaderOf(car, key) == CarGet(car, key)

\* C15: the span Start makes from a source context whose span context is
\* valid with trace id T carries trace id T, and a recording tracer makes it
\* a new span that is the active one of the returned context; a fresh trace
\* is begun only when the source context has no valid span.  Extracting an
\* inbound identity header of trace T, starting a span from the result and
\* writing the response from the context Start returned gives a response
\* header x-trace-id equal to T.
C15_ChildKeepsTraceId ==
    /\ prop.last = "start" =>
          /\ IsValid(prop.in.sc) => prop.ret.sc.trace = prop.in.sc.trace
          /\ prop.ret.sc.trace # prop.in.sc.trace => ~IsValid(prop.in.sc)
          /\ globals.otelTP # Nil =>
                /\ IsValid(prop.ret.sc)
                /\ ~prop.ret.sc.remote
                /\ prop.ret.sc.span # prop.in.sc.span
    /\ (prop.chain = 3 /\ globals.propagator # Nil /\ IsValid(prop.enc)) =>
          HeaderOf(prop.resp, "x-trace-id")
             = << <<prop.enc.trace \div 16, prop.enc.trace % 16>> >>

\* After a successful Init: a peer's identity header was extracted, a span
\* started from the result and the response written from the new context.
C15_Witness ==
    /\ prop.chain = 3
    /\ InitSucceeded
    /\ prop.src = "given"
    /\ IsValid(prop.enc)

\* C16: with the propagator installed, for each carrier kind, a context
\* holding a valid span S injected into an empty carrier and then extracted
\* from it, into whatever context, gives a context whose span context has
\* S's trace id and span id.
C16_InjectExtractRoundTrip ==
    (prop.last = "extract" /\ prop.src = "injected" /\ globals.propagator # Nil) =>
        /\ prop.ret.sc.trace = prop.enc.trace
        /\ prop.ret.sc.span = prop.enc.span

\* After a successful Init, a span was injected into an empty AMQP table and
\* extracted from it into a context without a span.
C16_Witness ==
    /\ prop.last = "extract"
    /\ prop.src = "injected"
    /\ InitSucceeded
    /\ prop.car.kind = "amqp"
    /\ prop.in = Background

\* The carrier as given holds no valid identity header, or there is no
\* propagator.
NothingToExtract ==
    \/ globals.propagator = Nil
    \/ prop.src = "given" /\ prop.enc = NoSC

\* C17 as stated: extract from a carrier without a valid identity header, or
\* without a propagator, returns the very context it was given.
C17_ExtractReturnsInputContext ==
    (prop.last = "extract" /\ NothingToExtract) => prop.ret = prop.in

\* C17: extract from a carrier without a valid identity header (missing,
\* malformed, not a string), or without a propagator, raises nothing and
\* returns a context with the span context of the input context; it returns
\* the input context itself unless the carrier holds a valid baggage header
\* and a propagator is installed.
C17_ExtractInventsNoSpanContext ==
    (prop.last = "extract" /\ NothingToExtract) =>
        /\ ~crashed
        /\ prop.ret.sc = prop.in.sc
        /\ (globals.propagator = Nil \/ prop.bag = 0) => prop.ret = prop.in

\* With the propagator installed, a malformed identity header was extracted
\* onto a context that holds a span.
C17_Witness ==
    /\ prop.last = "extract"
    /\ globals.propagator # Nil
    /\ prop.src = "given" /\ prop.enc = NoSC
    /\ HeaderOf(prop.car, "traceparent") # <<>>
    /\ IsValid(prop.in.sc)

\* The carrier the last call wrote to.
Touched == IF prop.last = "response" THEN prop.resp ELSE prop.car

\* The carrier has the headers x-trace-id and x-span-id exactly as before
\* the last call.
LegacyKeysAsBefore ==
    \A key \in {"x-trace-id", "x-span-id"} :
        LET k == CanonKey(Touched.kind, key)
        IN  /\ k \in DOMAIN Touched.h <=> k \in DOMAIN prop.pre
            /\ k \in DOMAIN prop.pre => Touched.h[k] = prop.pre[k]

\* C18: with legacy mode off no inject operation, ToHTTPResponse included,
\* writes an x-trace-id or x-span-id header.
C18_NoLegacyHeadersWhenOff ==
    (prop.last \in {"inject", "response"} /\ ~prop.legacy) => LegacyKeysAsBefore

\* C19: with legacy mode on, the propagator installed and a valid active
\* span, inject into each carrier kind writes the identity header of the
\* span and the headers x-trace-id and x-span-id with the span's ids.
C19_LegacyAddsPlainHeaders ==
    (/\ prop.last = "inject"
     /\ prop.legacy
     /\ globals.propagator # Nil
     /\ IsValid(prop.in.sc)) =>
        /\ HeaderOf(prop.car, "traceparent")
              = << <<0, 0>>, <<prop.in.sc.trace \div 16, prop.in.sc.trace % 16>>,
                   <<prop.in.sc.span \div 16, prop.in.sc.span % 16>>, <<0, 1>> >>
        /\ HeaderOf(prop.car, "x-trace-id")
              = << <<prop.in.sc.trace \div 16, prop.in.sc.trace % 16>> >>
        /\ HeaderOf(prop.car, "x-span-id")
              = << <<prop.in.sc.span \div 16, prop.in.sc.span % 16>> >>

\* C20: when the context has no valid active span, ToHTTPRequest and ToAMQP
\* in legacy mode and ToHTTPResponse, on a carrier that was made, return
\* normally and neither add nor overwrite x-trace-id / x-span-id.
C20_LegacySkippedWithoutSpan ==
    (/\ \/ prop.last = "inject" /\ prop.legacy /\ prop.car.kind \in {"http", "amqp"}
        \/ prop.last = "response"
     /\ Touched.state = "ok"
     /\ ~IsValid(prop.in.sc)) =>
        /\ ~crashed
        /\ LegacyKeysAsBefore

\* ToHTTPResponse ran for a context whose span context has a zero span id,
\* on a response that already had the two headers.
C20_Witness ==
    /\ prop.last = "response"
    /\ prop.in.sc.trace # 0 /\ prop.in.sc.span = 0
    /\ "X-Trace-Id" \in DOMAIN prop.pre

\* C21: ToHTTPResponse changes no header of the response other than
\* x-trace-id and x-span-id: it writes no identity header and no baggage
\* header, and every other header is as it was.
C21_ResponseWritesOnlyLegacyHeaders ==
    prop.last = "response" =>
        \A k \in (DOMAIN prop.resp.h) \cup (DOMAIN prop.pre) :
            k \notin {"X-Trace-Id", "X-Span-Id"} =>
                /\ k \in DOMAIN prop.resp.h
                /\ k \in DOMAIN prop.pre
                /\ prop.resp.h[k] = prop.pre[k]

\* ToHTTPResponse ran for a context with a valid span and baggage, on a
\* response that had another header.
C21_Witness ==
    /\ prop.last = "response"
    /\ IsValid(prop.in.sc)
    /\ prop.in.bag # 0
    /\ "Content-Type" \in DOMAIN prop.pre

\* C22: no inject operation panics, whatever the carrier argument: a nil
\* metadata pointer, a pointer to a nil metadata map, a nil header table.
C22_InjectNeverCrashes ==
    prop.last = "inject" => ~crashed

\* C23: when the meter fails to create an instrument, the name is not
\* entered into the cache, the lock is held until the deferred Unlock and
\* released by the time the call returns, and the call returns without a
\* panic having recorded nothing.
C23_FailedCreationIsSwallowed ==
    /\ [](\A t \in Threads :
            /\ (thr[t].pc = "unlock" /\ thr[t].c = NoInstr) =>
                  /\ cache[thr[t].kind][thr[t].name] = NoInstr
                  /\ mu[thr[t].kind] = t
            /\ (thr[t].pc \in {"record", "idle"}) =>
                  \A k \in InstrKinds : mu[k] # t)
    /\ [][\A t \in Threads :
            (thr[t].pc = "record" /\ thr[t].c = NoInstr /\ thr'[t].pc = "idle") =>
                /\ emitted' = {}
                /\ ~crashed'
                /\ thr'[t].last = "nilInstrument"
                /\ cache' = cache /\ created' = created]_vars

\* One goroutine is about to return from a call whose creation failed, and
\* another, in a later call for the same name, is creating the instrument
\* again.
C23_Witness ==
    \E t1, t2 \in Threads :
        /\ t1 # t2
        /\ thr[t1].pc = "record" /\ thr[t1].c = NoInstr
        /\ thr[t2].pc = "create"
        /\ thr[t2].kind = thr[t1].kind /\ thr[t2].name = thr[t1].name

\* C24: the unit and description of an instrument are those of the call that
\* first created it.  Once a name is cached, no later Add / Record, whatever
\* Unit and Description its builder carries, replaces the instrument, makes
\* another one or changes the unit and description; the call resolves the
\* cached instrument and does not crash or come back without one.
C24_FirstCreationFixesUnit ==
    /\ [](/\ ~crashed
          /\ \A t \in {1} :
               (thr[t].pc \in {"unlock", "record"}
                  /\ cache[thr[t].kind][thr[t].name] # NoInstr)
               => thr[t].c = cache[thr[t].kind][thr[t].name])
    /\ [][\A k \in InstrKinds, n \in InstrNames :
            cache[k][n] # NoInstr
            => /\ cache'[k][n] = cache[k][n]
               /\ created'[k][n] = created[k][n]
               /\ instrSchema'[k][n] = instrSchema[k][n]]_vars

\* C24 witness: a call whose builder carries another unit or description than
\* the cached instrument has is about to record on the cached instrument.
C24_Witness ==
    /\ thr[1].pc = "record"
    /\ thr[1].c # NoInstr
    /\ thr[1].c = cache[thr[1].kind][thr[1].name]
    /\ thr[1].schema # instrSchema[thr[1].kind][thr[1].name]

\* The rule as stated: string to string, every integer type to a 64-bit
\* integer, every floating-point type to a float, bool to bool, anything
\* else to a string.
StatedAttrType(val) ==
    CASE val.type = "string" -> "STRING"
      [] val.type \in IntTypes -> "INT64"
      [] val.type \in FloatTypes -> "FLOAT64"
      [] val.type = "bool" -> "BOOL"
      [] OTHER -> "STRING"

\* C25: every attribute a counter, histogram or trace builder accumulated has
\* the type the stated rule gives for the value Attr was called with, and a
\* numeric attribute carries that value.
C25_AttrTypedByStatedRule ==
    \A i \in 1..Len(ab.attrs) :
        /\ ab.attrs[i].type = StatedAttrType(ab.given[i])
        /\ ab.attrs[i].type \in {"INT64", "FLOAT64"} => ab.attrs[i].n = ab.given[i].n

\* The map as stated: string to string, bool to bool, every integer type to a
\* 64-bit integer, everything else to a string.
StatedLogType(val) ==
    CASE val.type = "string" -> "String"
      [] val.type = "bool" -> "Bool"
      [] val.type \in IntTypes -> "Int64"
      [] OTHER -> "String"

\* The four levels and the four remote severities, one to one.
StatedSeverity(level) ==
    CASE level = "debug" -> "SeverityDebug"
      [] level = "info" -> "SeverityInfo"
      [] level = "warn" -> "SeverityWarn"
      [] level = "error" -> "SeverityError"

\* C26: the remote record of a builder's first Send has, for every field the
\* builder accumulated, exactly one attribute with the field's key, of the
\* type the stated map gives for the field's value; and its severity is the
\* one of the builder's level.
C26_RemoteRecordHasEveryField ==
    lb.sends = 1 =>
        \A r \in RecordsTo("remoteLog") :
            /\ lb.out[r].severity = StatedSeverity(lb.level)
            /\ \A i \in 1..Len(lb.given) :
                 /\ KeyCount(lb.out[r].fields, lb.entry[i].key) = 1
                 /\ \A j \in 1..Len(lb.out[r].fields) :
                      lb.out[r].fields[j].key = lb.entry[i].key
                      => lb.out[r].fields[j].type = StatedLogType(lb.given[i])

\* A frame matches a configured exclusion: its function starts with an entry
\* of the package list or its file contains an entry of the file list
\* (entries that are the empty string configure nothing).
Excluded(frame) ==
    \/ \E i \in 1..Len(globals.cfg.SkipCallerPkgs) :
         /\ globals.cfg.SkipCallerPkgs[i] # <<>>
         /\ SubSeq(frame.fn, 1, Len(globals.cfg.SkipCallerPkgs[i])) = globals.cfg.SkipCallerPkgs[i]
    \/ \E i \in 1..Len(globals.cfg.SkipCallerFiles) :
         /\ globals.cfg.SkipCallerFiles[i] # <<>>
         /\ \E a \in 1..Len(frame.file), b \in 1..Len(frame.file) :
              SubSeq(frame.file, a, b) = globals.cfg.SkipCallerFiles[i]

\* The frames of the last Send's stack above Send, within the inspected
\* depth, that have a location and are not excluded.
Reportable ==
    {i \in 4..Len(lb.stack) : /\ i <= 35
                              /\ lb.stack[i] # UnknownFrame
                              /\ ~Excluded(lb.stack[i])}

\* The caller values of a record.
CallersIn(fields) == {fields[j].val : j \in {k \in 1..Len(fields) : fields[k].key = "caller"}}

\* C27: the caller the first Send of a builder reports, to either sink, is
\* the nearest frame above Send that matches no configured exclusion; no
\* excluded frame is reported; and when every frame within the inspected
\* depth is excluded the record has no caller field.
C27_CallerIsNearestUnexcludedFrame ==
    lb.sends = 1 =>
        \A r \in 1..Len(lb.out) :
            IF Reportable = {}
            THEN CallersIn(lb.out[r].fields) = {}
            ELSE LET near == CHOOSE i \in Reportable : \A j \in Reportable : i <= j
                 IN  /\ CallersIn(lb.out[r].fields) = {CallerText(lb.stack[near])}
                     /\ KeyCount(lb.out[r].fields, "caller") = 1

\* C27 witness: Send ran below a frame that a file exclusion hides and
\* reported the application frame above it.
C27_Witness ==
    /\ lb.sends = 1
    /\ lb.stack = StackAbove(<<WrapFrame, AppFrame>>)
    /\ Excluded(WrapFrame)
    /\ Len(lb.out) >= 1
    /\ CallersIn(lb.out[1].fields) = {CallerText(AppFrame)}

\* C28: with the local logger set and a valid span in the builder's context,
\* every record a Send emits, to either sink, on the first Send of a builder
\* or a later one, has each of the keys trace_id, span_id and caller at most
\* once.
C28_CorrelationKeysAtMostOnce ==
    (lb.sends >= 1 /\ globals.logger # Nil /\ lb.at.sc.trace # 0 /\ lb.at.sc.span # 0) =>
        \A r \in 1..Len(lb.out) : \A k \in {"trace_id", "span_id", "caller"} :
            KeyCount(lb.out[r].fields, k) <= 1

\* C29: when the first TraceClose on a TraceStruct has returned, every span
\* started through the struct (the trace span, spans, child spans) has had
\* End called exactly once, also when Span or ChildSpan was called again
\* while the previous span was open.
C29_EverySpanEndedOnce ==
    (ts.closed /\ ts.closes = 1) =>
        \A i \in 1..Len(ts.spans) : ts.spans[i].endCalls = 1

\* The span side of C30, for a message whose handling is over: one span of
\* kind consumer was started, from the context FromAMQP extracted (the span
\* context the headers encode when a propagator is installed, and then a
\* recording span continues that trace), and End was called on it once.
OneConsumerSpan ==
    /\ cons.started = 1 /\ cons.endCalls = 1 /\ cons.spanKind = "consumer"
    /\ cons.parent = cons.ctx.sc
    /\ globals.propagator # Nil => cons.parent = cons.enc
    /\ (globals.propagator # Nil /\ cons.span.kind = "sdk"
          /\ cons.enc.trace # 0 /\ cons.enc.span # 0) => cons.sc.trace = cons.enc.trace
    /\ cons.span.kind = "sdk" => cons.span.ended

\* C30 as stated: for every message the handler returned from, one consumer
\* span, exactly one counter increment and exactly one histogram value, both
\* with status "error" exactly when the handler returned an error, the span
\* status Error in that case, and the wrapper returns normally.
C30_OneSpanOneCountPerMessage ==
    (cons.pc = "returned" /\ ~cons.panicking) =>
        /\ OneConsumerSpan
        /\ Len(cons.adds) = 1 /\ Len(cons.records) = 1
        /\ (cons.adds[1] = "error") <=> (cons.err # "nil")
        /\ (cons.records[1] = "error") <=> (cons.err # "nil")
        /\ cons.err # "nil" => cons.span.status = "Error"
        /\ cons.ret = "returned"

\* C30, amended: for every message, one consumer span started from the
\* extracted context and ended when the wrapper is left, also when the handler
\* panics.  When the handler returned, the counter gets one increment if
\* metrics are enabled, a meter is installed and the counter exists (none
\* otherwise), and the histogram likewise one value; each has status "error"
\* exactly when the handler returned an error; a recording span has status
\* Error in that case and is unset otherwise; the wrapper returns normally.
\* When the handler panicked nothing is counted.
C30_OneSpanAndMetricsWhenEnabled ==
    cons.pc = "returned" =>
        /\ OneConsumerSpan
        /\ Len(cons.adds) =
             (IF ~cons.panicking /\ globals.cfg.EnableMetrics /\ globals.meter # Nil
                 /\ cache["counter"]["amqp_consume_total"] # NoInstr THEN 1 ELSE 0)
        /\ Len(cons.records) =
             (IF ~cons.panicking /\ globals.cfg.EnableMetrics /\ globals.meter # Nil
                 /\ cache["histogram"]["amqp_consume_duration_ms"] # NoInstr THEN 1 ELSE 0)
        /\ \A i \in 1..Len(cons.adds) : (cons.adds[i] = "error") <=> (cons.err # "nil")
        /\ \A i \in 1..Len(cons.records) : (cons.records[i] = "error") <=> (cons.err # "nil")
        /\ (cons.err # "nil" /\ cons.span.kind = "sdk") => cons.span.status = "Error"
        /\ cons.err = "nil" => cons.span.status = "Unset"
        /\ cons.ret = (IF cons.panicking THEN "panic" ELSE "returned")

\* C30 witness: a message with a peer's identity header was handled, the
\* handler returned an error, the recording span carries it, and counter and
\* histogram each took one value with status "error".
C30_Witness ==
    /\ cons.pc = "returned"
    /\ cons.err # "nil"
    /\ cons.enc = PeerSC /\ cons.sc.trace = PeerSC.trace
    /\ cons.span.kind = "sdk" /\ cons.span.status = "Error"
    /\ cons.adds = <<"error">> /\ cons.records = <<"error">>

====
